---- MODULE Spec2Model ----
(***************************************************************************)
(* Document stores of haystack-core-integrations: PgvectorDocumentStore    *)
(* (PostgreSQL + pgvector through psycopg) and AzureAISearchDocumentStore  *)
(* (Azure AI Search through the azure-search-documents client).            *)
(*                                                                         *)
(* The backend (the database, the search service) is part of the state;    *)
(* every store operation is one action that runs the whole handler,        *)
(* including lazy connection set-up and schema initialization.  A backend  *)
(* failure is an input of the operation (the step at which the backend     *)
(* reports an error).                                                      *)
(***************************************************************************)
EXTENDS Integers, Sequences, FiniteSets, TLC

VARIABLES
    store_class,            \* which store class the instance under test is
    pipeline,               \* whether executemany of the psycopg build runs a batch as
                            \* one pipeline (psycopg >= 3.1 on libpq >= 14)
    config,                 \* constructor options of the pgvector store
    pg_db,                  \* the PostgreSQL database: table, rows, indexes
    pg_connection,          \* PgvectorDocumentStore._connection
    pg_session,             \* hnsw.ef_search of the session of _connection (0: not set)
    schema_is_initialized,  \* PgvectorDocumentStore._schema_is_initialized
    pg_trace,               \* counters of backend calls issued by the pgvector store,
                            \* and what its schema initialization found and did
    az_service,             \* the Azure AI Search service: index, documents
    az_inst,                \* the fields of the AzureAISearchDocumentStore instance
    az_trace,               \* counters of backend calls issued by the Azure store
    last,                   \* the call that has just returned: its inputs, the state
                            \* before it, its outcome; Idle once the caller has taken it
    twin                    \* the same call on the Azure store, when one caller drives
                            \* a store of each class with the same calls

vars == <<store_class, pipeline, config, pg_db, pg_connection, pg_session,
          schema_is_initialized, pg_trace, az_service, az_inst, az_trace, last, twin>>

pgVars == <<pipeline, config, pg_db, pg_connection, pg_session, schema_is_initialized,
            pg_trace>>
azVars == <<az_service, az_inst, az_trace>>

----------------------------------------------------------------------------
(* Bounds *)

\* longest batch of documents handed to one write_documents call
MaxBatch == 2

\* embedding_dimension of the stores under test
embedding_dimension == 2

\* largest top_k handed to a retrieval under the search specification
MaxTopK == 2

\* longest list of ids handed to one delete_documents call
MaxIds == 2

----------------------------------------------------------------------------
(* Documents *)

Ids == {"a", "b"}

\* Document.embedding = None
NoEmbedding == << >>

E1 == [i \in 1..embedding_dimension |-> 1]

\* Document.meta is a dict: a set of <<key, value>> pairs, one per key
EmptyMeta == {}

MetaKeys(meta) == {p[1] : p \in meta}

\* the (content, embedding, meta) payloads documents are drawn from
Versions ==
    { [content |-> "c1", embedding |-> E1,          meta |-> {<<"k", "v1">>}],
      [content |-> "c2", embedding |-> NoEmbedding, meta |-> EmptyMeta],
      [content |-> "c2", embedding |-> E1,          meta |-> EmptyMeta] }

Documents ==
    { [id |-> i, content |-> v.content, embedding |-> v.embedding, meta |-> v.meta] :
        i \in Ids, v \in Versions }

\* An element of a batch that is not a Document (a str), and the ids of Documents
\* whose id is not a str: the int 5, written here by its text.
NotADocument == [type |-> "str"]

NonStringIds == {"5"}

\* isinstance(x, Document)
IsDocument(x) == "id" \in DOMAIN x

\* isinstance(document_dict["id"], str)
IsStr(id) == id \notin NonStringIds

WellFormed(x) == IsDocument(x) /\ IsStr(x.id)

BatchesOf(elements) == UNION { [1..k -> elements] : k \in 1..MaxBatch }

\* the non-empty batches of at most MaxBatch documents
Batches == UNION { [1..k -> Documents] : k \in 1..MaxBatch }

Policies == {"NONE", "FAIL", "SKIP", "OVERWRITE"}

BatchIds(documents) == {documents[i].id : i \in 1..Len(documents)}

\* the id-to-document mapping of a set of stored records
ById(records, id) == CHOOSE r \in records : r.id = id

StoredIds(records) == {r.id : r \in records}

\* filters=None
NoFilters == [kind |-> "none", field |-> "", operator |-> "", value |-> ""]

\* the dict {"field": field, "operator": operator, "value": value}
Comparison(field, operator, value) ==
    [kind |-> "comparison", field |-> field, operator |-> operator, value |-> value]

\* a dict with neither an "operator" nor a "conditions" key
MalformedFilters == [kind |-> "malformed", field |-> "", operator |-> "", value |-> ""]

FilterExpressions ==
    { Comparison("content", "==", "c1"), Comparison("content", "!=", "c1"),
      Comparison("meta.k", "==", "v1") }

\* the value of a field of a Document; a metadata key it does not have is null
FieldValue(d, field) ==
    CASE field = "id" -> d.id
      [] field = "content" -> d.content
      [] OTHER -> IF field = "meta.k" /\ "k" \in MetaKeys(d.meta)
                  THEN (CHOOSE q \in d.meta : q[1] = "k")[2]
                  ELSE "null"

\* the documents a filter expression selects: a comparison holds of a document
\* when the value of the field stands in the relation of the operator to the value
Satisfies(filters, d) ==
    CASE filters.kind = "none" -> TRUE
      [] filters.operator = "==" -> FieldValue(d, filters.field) = filters.value
      [] filters.operator = "!=" -> FieldValue(d, filters.field) # filters.value
      [] OTHER -> FALSE

\* An id handed to delete_documents is a str: the sequence of its characters.
\* IdText is the text of the id of a stored document.
IdText(id) == <<id>>

\* ids of stored documents, an id that is not stored, and ids that are not stored
\* and hold a single quote
PlainIds == {IdText(i) : i \in Ids} \cup {<<"c">>}

QuoteIds == { <<"c", "'">>, <<"c", "'", ",", "'", "a">> }

IdLists(ids) == UNION { [1..k -> ids] : k \in 0..MaxIds }

IdsOf(document_ids) == {document_ids[i] : i \in 1..Len(document_ids)}

\* a count of backend calls, kept as 0, 1 or 2 for "more than once"
Bump(n) == IF n = 0 THEN 1 ELSE 2

----------------------------------------------------------------------------
(* Backend failures: the step of an operation at which the backend reports *)
(* an error, and for a statement of executemany its position in the batch. *)

NoFault == [step |-> "none", at |-> 0]

PgSessionFaults ==
    { [step |-> s, at |-> 0] :
        s \in {"connect", "extension", "drop_table", "create_table", "keyword_index"} }

PgExecuteFault == [step |-> "execute", at |-> 0]

\* the statements of _handle_hnsw and _create_hnsw_index
PgIndexFaults ==
    { [step |-> s, at |-> 0] :
        s \in {"set_ef_search", "index_check", "drop_hnsw_index", "create_hnsw_index"} }

PgStatementFaults(documents) ==
    { [step |-> s, at |-> i] : s \in {"IntegrityError", "Error"}, i \in 1..Len(documents) }

----------------------------------------------------------------------------
(* PgvectorDocumentStore *)

\* _from_haystack_to_pg_documents: the row written for a Document (score and blob
\* are dropped, meta becomes a JSONB value)
FromHaystackToPg(d) ==
    [id |-> d.id, embedding |-> d.embedding, content |-> d.content, meta |-> d.meta]

\* _from_pg_to_haystack_documents: the Document built from a row
FromPgToHaystack(r) ==
    [id |-> r.id, content |-> r.content, embedding |-> r.embedding, meta |-> r.meta]

\* InsertStatement with ON CONFLICT DO NOTHING taken for the update clause
InsertStatementSkipUpdates(rows, row, policy) ==
    IF row.id \in StoredIds(rows)
    THEN CASE policy \in {"OVERWRITE", "SKIP"} ->
                [rows |-> (rows \ {ById(rows, row.id)}) \cup {row}, returned |-> 1,
                 error |-> "none"]
           [] OTHER ->
                [rows |-> rows, returned |-> 0, error |-> "IntegrityError"]
    ELSE [rows |-> rows \cup {row}, returned |-> 1, error |-> "none"]

\* One INSERT of executemany under the policy's conflict clause: the rows after it,
\* whether RETURNING id gave a row, and whether the primary key was violated.
InsertStatement(rows, row, policy) ==
    IF row.id \in StoredIds(rows)
    THEN CASE policy = "OVERWRITE" ->
                [rows |-> (rows \ {ById(rows, row.id)}) \cup {row}, returned |-> 1,
                 error |-> "none"]
           [] policy = "SKIP" ->
                [rows |-> rows, returned |-> 0, error |-> "none"]
           [] OTHER ->
                [rows |-> rows, returned |-> 0, error |-> "IntegrityError"]
    ELSE [rows |-> rows \cup {row}, returned |-> 1, error |-> "none"]

\* cursor.executemany: the statements run in batch order and stop at the first error.
RECURSIVE ExecuteMany(_, _, _, _, _, _)
ExecuteMany(rows, params, policy, fault, i, written) ==
    IF i > Len(params)
    THEN [rows |-> rows, written |-> written, error |-> "none", at |-> "none"]
    ELSE IF fault.at = i
         THEN [rows |-> rows, written |-> written, error |-> fault.step,
               at |-> "statement"]
         ELSE LET s == InsertStatement(rows, params[i], policy)
              IN  IF s.error # "none"
                  THEN [rows |-> rows, written |-> written, error |-> s.error,
                        at |-> "duplicate"]
                  ELSE ExecuteMany(s.rows, params, policy, fault, i + 1,
                                   written + s.returned)

\* _connected_write_documents from executemany on: on a connection in autocommit mode
\* every statement is committed as it runs and connection.rollback() undoes nothing,
\* unless executemany runs the batch as one pipeline (one implicit transaction that
\* the server rolls back as a whole).  A missing table fails the first statement.
ExecuteBatch(db, documents, policy, fault, pipelined) ==
    LET params == [i \in 1..Len(documents) |-> FromHaystackToPg(documents[i])]
        pol    == IF policy = "NONE" THEN "FAIL" ELSE policy
        run    == IF db.table
                  THEN ExecuteMany(db.rows, params, pol, fault, 1, 0)
                  ELSE [rows |-> db.rows, written |-> 0, error |-> "Error",
                        at |-> "statement"]
    IN  CASE run.error = "IntegrityError" ->
               [db |-> [db EXCEPT !.rows = IF pipelined THEN db.rows ELSE run.rows],
                outcome |-> "DuplicateDocumentError", failed_at |-> run.at,
                returned |-> 0]
          [] run.error = "Error" ->
               [db |-> [db EXCEPT !.rows = IF pipelined THEN db.rows ELSE run.rows],
                outcome |-> "DocumentStoreError", failed_at |-> run.at,
                returned |-> 0]
          [] OTHER ->
               [db |-> [db EXCEPT !.rows = run.rows], outcome |-> "ok",
                failed_at |-> "none", returned |-> run.written]

\* _connected_write_documents: only the first element of the batch is checked to be
\* a Document, ValueError; _from_haystack_to_pg_documents then calls to_dict() on
\* every element, which an element that is not a Document does not have; the id of
\* a Document is not checked and goes to the INSERT as it is (PostgreSQL stores the
\* text of a number in the VARCHAR column).
ConnectedWriteDocuments(db, documents, policy, fault, pipelined) ==
    IF ~IsDocument(documents[1])
    THEN [db |-> db, outcome |-> "ValueError", failed_at |-> "arguments", returned |-> 0]
    ELSE IF \E i \in 1..Len(documents) : ~IsDocument(documents[i])
    THEN [db |-> db, outcome |-> "AttributeError", failed_at |-> "convert",
          returned |-> 0]
    ELSE ExecuteBatch(db, documents, policy, fault, pipelined)

\* no index of the configured name on the table
NoIndex == [exists |-> FALSE, ops |-> "none", kwargs |-> {}]

\* delete_table: DROP TABLE IF EXISTS (its indexes go with it)
DeleteTable(db) ==
    [db EXCEPT !.table = FALSE, !.rows = {}, !.keyword_index = FALSE,
               !.hnsw_index = NoIndex]

\* VECTOR_FUNCTION_TO_POSTGRESQL_OPS
VECTOR_FUNCTION_TO_POSTGRESQL_OPS(vector_function) ==
    CASE vector_function = "cosine_similarity" -> "vector_cosine_ops"
      [] vector_function = "inner_product" -> "vector_ip_ops"
      [] vector_function = "l2_distance" -> "vector_l2_ops"

HNSW_INDEX_CREATION_VALID_KWARGS == {"m", "ef_construction"}

\* CreateHnswIndex with the operator class of the default vector_function
CreateHnswIndexDefaultOps(cfg) ==
    [exists |-> TRUE, ops |-> "vector_cosine_ops",
     kwargs |-> {p \in cfg.hnsw_index_creation_kwargs :
                    p[1] \in HNSW_INDEX_CREATION_VALID_KWARGS}]

\* CreateHnswIndex leaving no index behind
CreateHnswIndexUnregistered(cfg) == NoIndex

\* _create_hnsw_index: the index CREATE INDEX ... USING hnsw (embedding <ops>) builds,
\* WITH the creation kwargs whose key is a valid one
CreateHnswIndex(cfg) ==
    [exists |-> TRUE, ops |-> VECTOR_FUNCTION_TO_POSTGRESQL_OPS(cfg.vector_function),
     kwargs |-> {p \in cfg.hnsw_index_creation_kwargs :
                    p[1] \in HNSW_INDEX_CREATION_VALID_KWARGS}]

\* HandleHnsw without the early return for an index that exists
HandleHnswAlwaysRebuild(db, cfg, session, t, fault) ==
    LET set == cfg.hnsw_ef_search # 0
        t0  == [t EXCEPT !.handle_runs = Bump(@)]
        t1  == IF set THEN [t0 EXCEPT !.ef_sets = Bump(@)] ELSE t0
        s1  == IF set THEN cfg.hnsw_ef_search ELSE session
        t2  == [t1 EXCEPT !.index_checks = Bump(@)]
        found == IF db.hnsw_index.exists THEN "present" ELSE "absent"
        t4  == [t2 EXCEPT !.drops = Bump(@), !.builds = Bump(@), !.handled = "ok"]
    IN  [db |-> [db EXCEPT !.hnsw_index = CreateHnswIndex(cfg)], session |-> s1,
         trace |-> t4, found |-> found, error |-> "none"]

\* _handle_hnsw on the session `session` (its hnsw.ef_search): SET hnsw.ef_search when
\* one is configured, the existence check, then either the warning or DROP INDEX IF
\* EXISTS and _create_hnsw_index.  `found` is what the existence check saw; the
\* trace counts the statements issued and keeps how the run ended: "ok", or the
\* statement that failed.  CREATE INDEX on a table that does not exist is an error of
\* the server.
HandleHnsw(db, cfg, session, t, fault) ==
    LET set == cfg.hnsw_ef_search # 0
        t0  == [t EXCEPT !.handle_runs = Bump(@)]
        t1  == IF set THEN [t0 EXCEPT !.ef_sets = Bump(@)] ELSE t0
        s1  == IF set THEN cfg.hnsw_ef_search ELSE session
        t2  == [t1 EXCEPT !.index_checks = Bump(@)]
        found == IF db.hnsw_index.exists THEN "present" ELSE "absent"
        t3  == [t2 EXCEPT !.drops = Bump(@)]
        d3  == [db EXCEPT !.hnsw_index = NoIndex]
        t4  == [t3 EXCEPT !.builds = Bump(@)]
        d4  == [d3 EXCEPT !.hnsw_index = CreateHnswIndex(cfg)]
    IN  CASE set /\ fault.step = "set_ef_search" ->
               [db |-> db, session |-> session,
                trace |-> [t1 EXCEPT !.handled = "set_ef_search"],
                found |-> "unchecked", error |-> "DocumentStoreError"]
          [] fault.step = "index_check" ->
               [db |-> db, session |-> s1, trace |-> [t2 EXCEPT !.handled = "index_check"],
                found |-> "unchecked", error |-> "DocumentStoreError"]
          [] db.hnsw_index.exists /\ ~cfg.hnsw_recreate_index_if_exists ->
               [db |-> db, session |-> s1,
                trace |-> [t2 EXCEPT !.warnings = Bump(@), !.handled = "ok"],
                found |-> found, error |-> "none"]
          [] fault.step = "drop_hnsw_index" ->
               [db |-> db, session |-> s1, trace |-> [t3 EXCEPT !.handled = "drop_index"],
                found |-> found, error |-> "DocumentStoreError"]
          [] fault.step = "create_hnsw_index" \/ ~db.table ->
               [db |-> d3, session |-> s1, trace |-> [t4 EXCEPT !.handled = "create_index"],
                found |-> found, error |-> "DocumentStoreError"]
          [] OTHER ->
               [db |-> d4, session |-> s1, trace |-> [t4 EXCEPT !.handled = "ok"],
                found |-> found, error |-> "none"]

\* what _init_schema leaves when it ends with the _handle_hnsw run `h`: the trace
\* keeps what that run found and how it ended
InitHandled(h) ==
    [db |-> h.db, session |-> h.session,
     trace |-> [h.trace EXCEPT !.init_found = h.found, !.init_handled = h.trace.handled],
     error |-> h.error]

\* InitSchema running _handle_hnsw under every search strategy
InitSchemaAlwaysHnsw(db, cfg, session, t, fault) ==
    InitHandled(HandleHnsw([db EXCEPT !.table = TRUE, !.keyword_index = TRUE], cfg,
                           session, t, fault))

\* _init_schema: every statement goes through Cursor.execute, which turns a psycopg
\* error into DocumentStoreError; the statements before the failing one stay applied.
\* Under the hnsw strategy _handle_hnsw runs last.
InitSchema(db, cfg, session, t, fault) ==
    LET d1 == IF cfg.recreate_table /\ fault.step # "drop_table" THEN DeleteTable(db) ELSE db
        d2 == [d1 EXCEPT !.table = TRUE]
        d3 == [d2 EXCEPT !.keyword_index = TRUE]
        t1 == IF cfg.recreate_table THEN [t EXCEPT !.table_drops = Bump(@)] ELSE t
    IN  CASE cfg.recreate_table /\ fault.step = "drop_table" ->
               [db |-> db, session |-> session, trace |-> t, error |-> "DocumentStoreError"]
          [] fault.step = "create_table" ->
               [db |-> d1, session |-> session, trace |-> t1, error |-> "DocumentStoreError"]
          [] fault.step = "keyword_index" /\ ~d2.keyword_index ->
               [db |-> d2, session |-> session, trace |-> t1, error |-> "DocumentStoreError"]
          [] cfg.search_strategy = "hnsw" ->
               InitHandled(HandleHnsw(d3, cfg, session, t1, fault))
          [] OTHER ->
               [db |-> d3, session |-> session, trace |-> t1, error |-> "none"]

\* _create_connection: connect() and CREATE EXTENSION run on the bare psycopg
\* connection, so their errors are psycopg's own.
CreateConnection(fault) ==
    IF fault.step \in {"connect", "extension"} THEN "psycopg.Error" ELSE "none"

\* the session after _init_schema, had the one-shot flag been left unset
InitializedFlagUnset(init) ==
    [db |-> init.db, connected |-> TRUE, initialized |-> FALSE,
     session |-> init.session, trace |-> init.trace,
     outcome |-> IF init.error = "none" THEN "ok" ELSE init.error,
     failed_at |-> IF init.error = "none" THEN "none" ELSE "init_schema"]

\* the session after _init_schema ended as `init`
Initialized(init) ==
    [db |-> init.db, connected |-> TRUE, initialized |-> TRUE,
     session |-> init.session, trace |-> init.trace,
     outcome |-> IF init.error = "none" THEN "ok" ELSE init.error,
     failed_at |-> IF init.error = "none" THEN "none" ELSE "init_schema"]

\* The steps every operation runs before its own statement: a connection when there
\* is none (always, for the temporary connection of the __getattr__ wrapper), then
\* _init_schema when the one-shot flag is not set; the flag is set before it runs.
\* `session` is the hnsw.ef_search of the connection the operation runs on, `t` the
\* trace; connect() opens a connection unless it fails itself.
EnsureSession(db, cfg, have_connection, initialized, session, t, fault) ==
    LET conn == IF have_connection THEN "none" ELSE CreateConnection(fault)
        t0   == IF have_connection \/ fault.step = "connect" THEN t
                ELSE [t EXCEPT !.connections = Bump(@)]
    IN  IF conn # "none"
        THEN [db |-> db, connected |-> FALSE, initialized |-> initialized,
              session |-> session, trace |-> t0,
              outcome |-> conn, failed_at |-> "connection"]
        ELSE IF initialized
        THEN [db |-> db, connected |-> TRUE, initialized |-> TRUE,
              session |-> session, trace |-> t0,
              outcome |-> "ok", failed_at |-> "none"]
        ELSE Initialized(InitSchema(db, cfg, session, [t0 EXCEPT !.init_runs = Bump(@)],
                                    fault))

\* The record of a call.  documents and policy are those of a write_documents call;
\* for a filter_documents call issued right after a write returned, those of that
\* write.  before is what the backend stored when the call started.
\* filters is filled in by filter_documents.
\* delete is filled in by delete_documents: the ids it was given and the number of
\* delete requests that went to the backend.
\* query is filled in by a similarity query: its metric, the hnsw.ef_search of the session that ran
\* it and whether PostgreSQL answered it through the hnsw index.
NoQuery ==
    [vector_function |-> "none", ef_search |-> 0, through_index |-> FALSE,
     query_embedding |-> << >>, top_k |-> 0, ranked |-> << >>, keyword |-> ""]

\* statement is what the call handed to Cursor.execute: the text of the query, as the
\* sequence of its pieces, and the parameters bound to its placeholders
NoStatement == [text |-> << >>, params |-> << >>]

\* whether the session steps ended so that the statement of the operation was sent
StatementSent(s) == s.failed_at \in {"none", "execute"}

Call(op, inst, documents, policy, before, outcome, failed_at, returned, result) ==
    [op |-> op, inst |-> inst, documents |-> documents, policy |-> policy,
     before |-> before, outcome |-> outcome, failed_at |-> failed_at,
     returned |-> returned, result |-> result,
     query |-> NoQuery,
     delete |-> [document_ids |-> << >>, requests |-> 0],
     filters |-> NoFilters,
     statement |-> NoStatement]

\* no call is pending: the caller may issue the next one
Idle == Call("idle", "none", << >>, "NONE", {}, "ok", "none", 0, {})

\* the private method run by the wrapper once the session steps ended as `s`
WrappedWrite(s, documents, policy, fault, pipelined) ==
    LET w == ConnectedWriteDocuments(s.db, documents, policy, fault, pipelined)
    IN  IF s.outcome # "ok"
        THEN [db |-> s.db, initialized |-> s.initialized, trace |-> s.trace,
              outcome |-> s.outcome, failed_at |-> s.failed_at, returned |-> 0]
        ELSE [db |-> w.db, initialized |-> s.initialized, trace |-> s.trace,
              outcome |-> w.outcome, failed_at |-> w.failed_at, returned |-> w.returned]

\* store.write_documents(documents, policy): __getattr__ wraps
\* _connected_write_documents in a temporary connection (with the schema
\* initialization when the flag is not set) and puts the old value of _connection
\* back on every exit path.  The temporary connection is a new session, closed when
\* the call ends: what _init_schema set on it goes with it.
PgWriteDocuments(db, cfg, initialized, t, documents, policy, fault, pipelined) ==
    WrappedWrite(EnsureSession(db, cfg, FALSE, initialized, 0, t, fault),
                 documents, policy, fault, pipelined)

WriteDocuments(w, documents, policy) ==
    /\ pg_db' = w.db
    /\ schema_is_initialized' = w.initialized
    /\ pg_trace' = w.trace
    /\ last' = Call("write_documents", "pgvector", documents, policy, pg_db.rows,
                    w.outcome, w.failed_at, w.returned, {})

pg_write_documents(documents, policy, fault) ==
    /\ WriteDocuments(PgWriteDocuments(pg_db, config, schema_is_initialized, pg_trace,
                                       documents, policy, fault, pipeline),
                      documents, policy)
    /\ UNCHANGED <<store_class, twin, pipeline, config, pg_connection, pg_session, azVars>>

\* Cursor.execute of the operation's statement after the session steps ended as `s`
Execute(s, fault) ==
    IF s.outcome = "ok" /\ (fault.step = "execute" \/ ~s.db.table)
    THEN [s EXCEPT !.outcome = "DocumentStoreError", !.failed_at = "execute"]
    ELSE s

\* An operation that goes through the connection property and one Cursor.execute:
\* the session steps, then the statement.
ThroughConnection(fault) ==
    Execute(EnsureSession(pg_db, config, pg_connection, schema_is_initialized,
                          pg_session, pg_trace, fault), fault)

\* what an operation that ended its backend steps as `s` leaves in the instance and
\* in the database
Through(s) ==
    /\ pg_db' = s.db
    /\ pg_connection' = (pg_connection \/ s.connected)
    /\ pg_session' = s.session
    /\ schema_is_initialized' = s.initialized
    /\ pg_trace' = s.trace

\* filter_documents() without filters: SELECT * and the conversion of every row
\* the rows the WHERE clause of _convert_filters_to_where_clause_and_params(filters)
\* selects: the rows of the documents that satisfy the expression
WhereClause(filters, rows) == {r \in rows : Satisfies(filters, FromPgToHaystack(r))}

\* SELECT * FROM schema.table, with the WHERE clause when filters are given
FilterDocuments(s, filters) ==
    /\ Through(s)
    /\ last' = [Call("filter_documents", "pgvector", last.documents, last.policy,
                     pg_db.rows, s.outcome, s.failed_at, 0,
                     IF s.outcome = "ok"
                     THEN {FromPgToHaystack(r) : r \in WhereClause(filters, s.db.rows)}
                     ELSE {})
                  EXCEPT !.filters = filters]

\* filter_documents(filters): filters that are given must be a dict with an
\* "operator" or a "conditions" key, else ValueError before anything is sent
pg_filter_documents(filters, fault) ==
    IF filters.kind = "malformed"
    THEN /\ last' = [Call("filter_documents", "pgvector", last.documents, last.policy,
                          pg_db.rows, "ValueError", "arguments", 0, {})
                       EXCEPT !.filters = filters]
         /\ UNCHANGED <<store_class, twin, pgVars, azVars>>
    ELSE /\ FilterDocuments(ThroughConnection(fault), filters)
         /\ UNCHANGED <<store_class, twin, pipeline, config, azVars>>

\* count_documents(): SELECT COUNT(*)
CountDocuments(s) ==
    /\ Through(s)
    /\ last' = Call("count_documents", "pgvector", << >>, "NONE", pg_db.rows, s.outcome,
                    s.failed_at,
                    IF s.outcome = "ok" THEN Cardinality(s.db.rows) ELSE 0, {})

pg_count_documents(fault) ==
    /\ CountDocuments(ThroughConnection(fault))
    /\ UNCHANGED <<store_class, twin, pipeline, config, azVars>>

VALID_VECTOR_FUNCTIONS == {"cosine_similarity", "inner_product", "l2_distance"}

\* The backend's side of the query, not a step of the store: whether PostgreSQL can
\* answer the statement _embedding_retrieval builds by scanning the hnsw index.  The
\* index must be of the operator class of the statement's distance operator, and the
\* ORDER BY must be that operator ascending: of the three score definitions only
\* that of l2_distance is the bare operator, sorted ASC.  The store itself never
\* compares the operator class of an index with the metric of a query.
ThroughIndex(index, vector_function) ==
    /\ index.exists
    /\ index.ops = VECTOR_FUNCTION_TO_POSTGRESQL_OPS(vector_function)
    /\ vector_function = "l2_distance"

\* _embedding_retrieval(query_embedding, vector_function=...): the checks of the
\* arguments, then one query through the connection property.  vector_function is
\* "None" when the caller gives none.  An index scan visits the rows that have an
\* embedding; `use_index` is the planner's choice when the index can be used.
\* top_k: int = 10
DefaultTopK == 10

RECURSIVE Dot(_, _, _)
Dot(a, b, i) == IF i > Len(a) THEN 0 ELSE a[i] * b[i] + Dot(a, b, i + 1)

RECURSIVE SquaredDistance(_, _, _)
SquaredDistance(a, b, i) ==
    IF i > Len(a) THEN 0 ELSE (a[i] - b[i]) * (a[i] - b[i]) + SquaredDistance(a, b, i + 1)

\* The score column of the query, as the fraction num/den; an operator applied to a
\* NULL embedding gives NULL.
\*   cosine_similarity: 1 - (embedding <=> q), the cosine; kept as its square, which
\*     orders as the cosine does for embeddings without negative components
\*   inner_product: (embedding <#> q) * -1, where <#> is the negative inner product
\*   l2_distance: embedding <-> q, the distance; kept as its square
Score(vector_function, embedding, q) ==
    CASE embedding = NoEmbedding -> [null |-> TRUE, num |-> 0, den |-> 1]
      [] vector_function = "cosine_similarity" ->
           [null |-> FALSE, num |-> Dot(embedding, q, 1) * Dot(embedding, q, 1),
            den |-> Dot(embedding, embedding, 1) * Dot(q, q, 1)]
      [] vector_function = "inner_product" ->
           [null |-> FALSE, num |-> (0 - Dot(embedding, q, 1)) * (-1), den |-> 1]
      [] OTHER ->
           [null |-> FALSE, num |-> SquaredDistance(embedding, q, 1), den |-> 1]

ScoreLess(x, y) == x.num * y.den < y.num * x.den

\* sort_order = "ASC" if vector_function == "l2_distance" else "DESC"
SortOrder(vector_function) == IF vector_function = "l2_distance" THEN "ASC" ELSE "DESC"

\* ORDER BY score sort_order in PostgreSQL: whether a row with score x may stand
\* before a row with score y.  NULL sorts as larger than every value: last under
\* ASC, first under DESC.
MayPrecede(x, y, sort_order) ==
    IF sort_order = "ASC"
    THEN y.null \/ (~x.null /\ ~ScoreLess(y, x))
    ELSE x.null \/ (~y.null /\ ~ScoreLess(x, y))

\* SELECT *, score ... ORDER BY score sort_order LIMIT top_k: the lists of rows the
\* query may return (rows of equal score come in any order)
OrderByScoreLimit(rows, q, vector_function, top_k) ==
    LET n == Cardinality(rows)
        scored == {[row |-> r, score |-> Score(vector_function, r.embedding, q)] : r \in rows}
        sorted == { f \in [1..n -> scored] :
                      /\ \A i, j \in 1..n : i # j => f[i] # f[j]
                      /\ \A i, j \in 1..n :
                            i < j => MayPrecede(f[i].score, f[j].score,
                                                SortOrder(vector_function)) }
    IN  { SubSeq(f, 1, IF top_k < n THEN top_k ELSE n) : f \in sorted }

\* str(n) of a natural number, as the sequence of its digits
RECURSIVE Str(_)
Str(n) ==
    LET digit == <<"0", "1", "2", "3", "4", "5", "6", "7", "8", "9">>[(n % 10) + 1]
    IN  IF n < 10 THEN <<digit>> ELSE Append(Str(n \div 10), digit)

\* ','.join(str(el) for el in query_embedding)
RECURSIVE JoinStr(_, _)
JoinStr(query_embedding, i) ==
    IF i > Len(query_embedding) THEN << >>
    ELSE Str(query_embedding[i])
         \o (IF i < Len(query_embedding) THEN <<",">> ELSE << >>)
         \o JoinStr(query_embedding, i + 1)

\* f"'[{','.join(str(el) for el in query_embedding)}]'"
QueryEmbeddingForPostgres(query_embedding) ==
    <<"'", "[">> \o JoinStr(query_embedding, 1) \o <<"]", "'">>

\* score_definition for the metric, the query embedding written into it
ScoreDefinition(vf, query_embedding) ==
    CASE vf = "cosine_similarity" ->
           <<"1 - (embedding <=> ">> \o QueryEmbeddingForPostgres(query_embedding)
               \o <<") AS score">>
      [] vf = "inner_product" ->
           <<"(embedding <#> ">> \o QueryEmbeddingForPostgres(query_embedding)
               \o <<") * -1 AS score">>
      [] OTHER ->
           <<"embedding <-> ">> \o QueryEmbeddingForPostgres(query_embedding)
               \o <<" AS score">>

\* sql_select + sql_where_clause + sql_sort of _embedding_retrieval without filters:
\* the score definition goes in as SQL text, top_k as a literal; params is empty
EmbeddingSql(query_embedding, vf, top_k) ==
    [text |-> <<"SELECT *, ">> \o ScoreDefinition(vf, query_embedding)
              \o <<" FROM schema.table", " ORDER BY score ", SortOrder(vf), " LIMIT ">>
              \o Str(top_k),
     params |-> << >>]

EmbeddingRetrieval(s, query_embedding, top_k, vf, use_index) ==
    LET through == use_index /\ ThroughIndex(s.db.hnsw_index, vf)
        records == IF through THEN {r \in s.db.rows : r.embedding # NoEmbedding}
                   ELSE s.db.rows
    IN  \E ranked \in (IF s.outcome = "ok"
                       THEN OrderByScoreLimit(records, query_embedding, vf, top_k)
                       ELSE {<< >>}) :
        /\ Through(s)
        /\ last' = [Call("_embedding_retrieval", "pgvector", << >>, "NONE",
                         pg_db.rows, s.outcome, s.failed_at, 0,
                         {FromPgToHaystack(ranked[i].row) : i \in 1..Len(ranked)})
                      EXCEPT !.query = [vector_function |-> vf,
                                        ef_search |-> s.session,
                                        through_index |-> s.outcome = "ok" /\ through,
                                        query_embedding |-> query_embedding,
                                        top_k |-> top_k,
                                        ranked |-> [i \in 1..Len(ranked) |->
                                                      [id |-> ranked[i].row.id,
                                                       score |-> ranked[i].score]],
                                        keyword |-> ""],
                         !.statement = IF StatementSent(s)
                                       THEN EmbeddingSql(query_embedding, vf, top_k)
                                       ELSE NoStatement]

\* the check of the length against embedding_dimension left out
QueryEmbeddingNotEmpty(query_embedding) == query_embedding # << >>

\* `if not query_embedding` and `if len(query_embedding) != self.embedding_dimension`
QueryEmbeddingAccepted(query_embedding) ==
    query_embedding # << >> /\ Len(query_embedding) = embedding_dimension

\* _embedding_retrieval(query_embedding, vector_function=...): the arguments are
\* checked first, ValueError; then the query runs on the connection of the property
pg_embedding_retrieval(query_embedding, top_k, vector_function, use_index, fault) ==
    LET vf == IF vector_function = "None" THEN config.vector_function ELSE vector_function
    IN  IF \/ ~QueryEmbeddingAccepted(query_embedding)
           \/ vf \notin VALID_VECTOR_FUNCTIONS
        THEN /\ last' = [Call("_embedding_retrieval", "pgvector", << >>, "NONE",
                              pg_db.rows, "ValueError", "arguments", 0, {})
                           EXCEPT !.query = [NoQuery EXCEPT
                                                !.vector_function = vf,
                                                !.query_embedding = query_embedding,
                                                !.top_k = top_k]]
             /\ UNCHANGED <<store_class, twin, pgVars, azVars>>
        ELSE /\ EmbeddingRetrieval(ThroughConnection(fault), query_embedding, top_k, vf,
                                   use_index)
             /\ UNCHANGED <<store_class, twin, pipeline, config, azVars>>

\* SQL(KEYWORD_QUERY) + sql_where_clause + sql_sort of _keyword_retrieval without
\* filters: the query string is the parameter of the %s placeholder (KEYWORD_QUERY has
\* no {query} field for the literal given to format), top_k is a literal of the text
KeywordSql(query, top_k) ==
    [text |-> <<"SELECT table.*, ts_rank_cd(to_tsvector(language, content), query) AS score",
                " FROM schema.table, plainto_tsquery(language, ", "%s", ") query",
                " WHERE to_tsvector(language, content) @@ query",
                " ORDER BY score DESC LIMIT ">> \o Str(top_k),
     params |-> <<query>>]

\* to_tsvector(language, content) @@ plainto_tsquery(language, query) for contents
\* and queries of one word: the word of the query is the word of the content
KeywordMatches(content, query) == content = query

\* the rows of the keyword query: among the matching rows, which all have the same
\* rank here, any top_k of them
KeywordRetrieval(s, query, top_k) ==
    LET records == IF s.outcome = "ok"
                   THEN {r \in s.db.rows : KeywordMatches(r.content, query)} ELSE {}
        n == Cardinality(records)
    IN  \E limited \in {l \in SUBSET records :
                            Cardinality(l) = IF top_k < n THEN top_k ELSE n} :
        /\ Through(s)
        /\ last' = [Call("_keyword_retrieval", "pgvector", << >>, "NONE",
                         pg_db.rows, s.outcome, s.failed_at, 0,
                         {FromPgToHaystack(r) : r \in limited})
                      EXCEPT !.query = [NoQuery EXCEPT !.keyword = query, !.top_k = top_k],
                             !.statement = IF StatementSent(s) THEN KeywordSql(query, top_k)
                                           ELSE NoStatement]

\* _keyword_retrieval(query, top_k=...): an empty query is a ValueError before
\* anything is sent; then the query runs on the connection of the property
pg_keyword_retrieval(query, top_k, fault) ==
    IF query = ""
    THEN /\ last' = [Call("_keyword_retrieval", "pgvector", << >>, "NONE",
                          pg_db.rows, "ValueError", "arguments", 0, {})
                       EXCEPT !.query = [NoQuery EXCEPT !.keyword = query, !.top_k = top_k]]
         /\ UNCHANGED <<store_class, twin, pgVars, azVars>>
    ELSE /\ KeywordRetrieval(ThroughConnection(fault), query, top_k)
         /\ UNCHANGED <<store_class, twin, pipeline, config, azVars>>

\* the DROP TABLE IF EXISTS of delete_table after the session steps ended as `s`: it
\* needs no table to succeed
DeleteTableCalled(s, fault) ==
    /\ pg_db' = (IF s.outcome = "ok" /\ fault.step # "execute" THEN DeleteTable(s.db)
                 ELSE s.db)
    /\ pg_connection' = (pg_connection \/ s.connected)
    /\ pg_session' = s.session
    /\ schema_is_initialized' = s.initialized
    /\ pg_trace' = (IF s.outcome = "ok" /\ fault.step # "execute"
                    THEN [s.trace EXCEPT !.table_drops = Bump(@)] ELSE s.trace)
    /\ last' = Call("delete_table", "pgvector", << >>, "NONE", pg_db.rows,
                    IF s.outcome = "ok" /\ fault.step = "execute"
                    THEN "DocumentStoreError" ELSE s.outcome,
                    IF s.outcome = "ok" /\ fault.step = "execute"
                    THEN "execute" ELSE s.failed_at,
                    0, {})

\* store.delete_table(): its cursor goes through the connection property (with the
\* schema initialization when the flag is not set), then the table is dropped
pg_delete_table(fault) ==
    /\ DeleteTableCalled(EnsureSession(pg_db, config, pg_connection, schema_is_initialized,
                                       pg_session, pg_trace, fault), fault)
    /\ UNCHANGED <<store_class, twin, pipeline, config, azVars>>

\* store._handle_hnsw() called on the instance: its first cursor goes through the
\* connection property (with the schema initialization, which runs _handle_hnsw
\* itself, when the flag is not set), then the statements of _handle_hnsw.
HandleHnswRan(h) ==
    /\ pg_db' = h.db
    /\ pg_connection' = TRUE
    /\ pg_session' = h.session
    /\ schema_is_initialized' = TRUE
    /\ pg_trace' = h.trace
    /\ last' = Call("_handle_hnsw", "pgvector", << >>, "NONE", pg_db.rows,
                    IF h.error = "none" THEN "ok" ELSE h.error,
                    IF h.error = "none" THEN "none" ELSE "handle_hnsw", 0, {})

HandleHnswCalled(s, fault) ==
    IF s.outcome # "ok"
    THEN /\ Through(s)
         /\ last' = Call("_handle_hnsw", "pgvector", << >>, "NONE", pg_db.rows,
                         s.outcome, s.failed_at, 0, {})
    ELSE HandleHnswRan(HandleHnsw(s.db, config, s.session, s.trace, fault))

pg_handle_hnsw(fault) ==
    /\ HandleHnswCalled(EnsureSession(pg_db, config, pg_connection, schema_is_initialized,
                                      pg_session, pg_trace, fault), fault)
    /\ UNCHANGED <<store_class, twin, pipeline, config, azVars>>

\* f"'{document_id}'"
Quoted(document_id) == <<"'">> \o document_id \o <<"'">>

\* ", ".join(f"'{document_id}'" for document_id in document_ids)
RECURSIVE DocumentIdsStr(_, _)
DocumentIdsStr(document_ids, i) ==
    IF i > Len(document_ids) THEN << >>
    ELSE Quoted(document_ids[i])
         \o (IF i < Len(document_ids) THEN <<",", " ">> ELSE << >>)
         \o DocumentIdsStr(document_ids, i + 1)

\* PostgreSQL reading the text between the parentheses of `id IN (...)`: string
\* constants separated by commas.  A constant starts and ends with a quote, two
\* quotes in a row inside it stand for one quote character; anything else where a
\* constant or a comma is expected is an error of the statement.
\* mode: "value" (a constant is expected), "in" (inside a constant), "after".
RECURSIVE InList(_, _, _, _, _)
InList(text, i, mode, cur, values) ==
    IF i > Len(text)
    THEN [ok |-> mode = "after", values |-> values]
    ELSE CASE mode = "value" ->
                IF text[i] = " " THEN InList(text, i + 1, "value", cur, values)
                ELSE IF text[i] = "'" THEN InList(text, i + 1, "in", << >>, values)
                ELSE [ok |-> FALSE, values |-> values]
           [] mode = "in" ->
                IF text[i] # "'" THEN InList(text, i + 1, "in", Append(cur, text[i]), values)
                ELSE IF i < Len(text) /\ text[i + 1] = "'"
                THEN InList(text, i + 2, "in", Append(cur, "'"), values)
                ELSE InList(text, i + 1, "after", << >>, values \cup {cur})
           [] OTHER ->
                IF text[i] = " " THEN InList(text, i + 1, "after", cur, values)
                ELSE IF text[i] = "," THEN InList(text, i + 1, "value", cur, values)
                ELSE [ok |-> FALSE, values |-> values]

\* SQL("DELETE FROM {schema_name}.{table_name} WHERE id IN ({document_ids_str})")
\* with document_ids_str put in as SQL text; execute gets no parameters
DeleteSql(document_ids) ==
    [text |-> <<"DELETE FROM schema.table WHERE id IN (">>
              \o DocumentIdsStr(document_ids, 1) \o <<")">>,
     params |-> << >>]

\* DELETE FROM schema.table WHERE id IN (document_ids_str)
DeleteByIds(db, document_ids) ==
    LET list == InList(DocumentIdsStr(document_ids, 1), 1, "value", << >>, {})
    IN  IF ~list.ok THEN [db |-> db, error |-> TRUE]
        ELSE [db |-> [db EXCEPT !.rows = {r \in db.rows : IdText(r.id) \notin list.values}],
              error |-> FALSE]

\* the cursor and the execution of the statement after the session steps ended as `s`
DeleteExecuted(s, d, document_ids) ==
    /\ pg_db' = (IF s.outcome = "ok" THEN d.db ELSE s.db)
    /\ pg_connection' = (pg_connection \/ s.connected)
    /\ pg_session' = s.session
    /\ schema_is_initialized' = s.initialized
    /\ pg_trace' = s.trace
    /\ last' = [Call("delete_documents", "pgvector", << >>, "NONE", pg_db.rows,
                     IF s.outcome = "ok" /\ d.error THEN "DocumentStoreError" ELSE s.outcome,
                     IF s.outcome = "ok" /\ d.error THEN "delete_sql" ELSE s.failed_at,
                     0, {})
                  EXCEPT !.delete = [document_ids |-> document_ids,
                                     requests |-> IF s.failed_at \in {"none", "execute"}
                                                  THEN 1 ELSE 0],
                         !.statement = IF StatementSent(s) THEN DeleteSql(document_ids)
                                       ELSE NoStatement]

DeleteDocuments(s, document_ids) ==
    DeleteExecuted(s, DeleteByIds(s.db, document_ids), document_ids)

\* delete_documents(document_ids): nothing is done for an empty list; otherwise the
\* ids are put between quotes into the text of one DELETE statement
pg_delete_documents(document_ids, fault) ==
    IF document_ids = << >>
    THEN /\ last' = Call("delete_documents", "pgvector", << >>, "NONE", pg_db.rows,
                         "ok", "none", 0, {})
         /\ UNCHANGED <<store_class, twin, pgVars, azVars>>
    ELSE /\ DeleteDocuments(ThroughConnection(fault), document_ids)
         /\ UNCHANGED <<store_class, twin, pipeline, config, azVars>>

----------------------------------------------------------------------------
(* AzureAISearchDocumentStore *)

\* metadata_fields=None, and the fields of the index schema besides id, content and
\* embedding: <<key, type>> pairs
NoMetadataFields == {}

\* metadata_fields={"k": str}: the declaration of the one meta key the documents use
DefaultMetadataFields == {<<"k", "str">>}

\* the keys of type_mapping: the Python types a metadata field may be declared with
type_mapping == {"str", "bool", "int", "float"}

\* _map_metadata_field_types: whether every declared type has an entry in
\* type_mapping (ValueError otherwise)
MapMetadataFieldTypes(metadata_fields) == \A f \in metadata_fields : f[2] \in type_mapping

\* the store after __init__
NewInstance(metadata_fields) ==
    [index_client |-> FALSE, client |-> FALSE, dummy_vector |-> FALSE,
     metadata_fields |-> metadata_fields]

\* the search service without the index, and with the index of the default fields
NoSearchIndex == [index_exists |-> FALSE, index_fields |-> {}, docs |-> {}]

SearchIndex(docs) ==
    [index_exists |-> TRUE, index_fields |-> DefaultMetadataFields, docs |-> docs]

\* [-10.0] * embedding_dimension
DummyVector == [i \in 1..embedding_dimension |-> -10]

\* list_index_names fails on the first access of the call, if at all
AzWriteFaults(documents) ==
    { [step |-> "get_document", at |-> i] : i \in 1..Len(documents) }
    \cup { [step |-> "list_index_names", at |-> 1] }
    \cup { [step |-> s, at |-> 0] : s \in {"create_index", "upload"} }

AzReadFaults ==
    { [step |-> "list_index_names", at |-> 1] }
    \cup { [step |-> s, at |-> 0] : s \in {"create_index", "search"} }

\* _default_index_mapping: the index document of a Document: the meta keys become
\* top-level fields and a missing embedding becomes the dummy vector
DefaultIndexMapping(d) ==
    [id |-> d.id, content |-> d.content,
     embedding |-> IF d.embedding = NoEmbedding THEN DummyVector ELSE d.embedding,
     fields |-> d.meta]

\* the mergeOrUpload action of the service on one document: the fields the request
\* names replace the stored ones, the fields it does not name keep their stored value
MergeOrUploadOne(docs, x) ==
    IF x.id \in StoredIds(docs)
    THEN LET old == ById(docs, x.id)
         IN  (docs \ {old}) \cup
             { [x EXCEPT !.fields =
                   x.fields \cup {p \in old.fields : p[1] \notin MetaKeys(x.fields)}] }
    ELSE docs \cup {x}

\* whether every field the index documents of a request name is a field of the
\* index: the service refuses the request otherwise
Declared(index_fields, to_write) ==
    \A i \in 1..Len(to_write) :
        MetaKeys(to_write[i].fields) \subseteq {f[1] : f \in index_fields}

\* client.merge_or_upload_documents: the actions apply in request order
RECURSIVE MergeOrUpload(_, _, _)
MergeOrUpload(docs, to_write, i) ==
    IF i > Len(to_write) THEN docs
    ELSE MergeOrUpload(MergeOrUploadOne(docs, to_write[i]), to_write, i + 1)

\* The client property, run on every access: the index client is made once, the
\* index is looked up among list_index_names() and created when it is not there
\* (create_index maps the declared metadata fields first, then sends the request);
\* get_search_client then makes a new SearchClient.
\* `s` carries the service, the instance fields and the counters through a call.
Client(s, fault, at) ==
    LET checked == [s EXCEPT !.inst.index_client = TRUE,
                             !.trace.exists_checks = Bump(s.trace.exists_checks)]
    IN  IF fault.step = "list_index_names" /\ fault.at = at
        THEN [checked EXCEPT !.outcome = "HttpResponseError", !.failed_at = "client"]
        ELSE IF checked.service.index_exists
        THEN [checked EXCEPT !.inst.client = TRUE,
                             !.trace.search_clients = Bump(s.trace.search_clients)]
        ELSE IF ~MapMetadataFieldTypes(s.inst.metadata_fields)
        THEN [checked EXCEPT !.outcome = "ValueError", !.failed_at = "metadata_fields"]
        ELSE IF fault.step = "create_index"
        THEN [checked EXCEPT !.trace.creates = Bump(s.trace.creates),
                             !.outcome = "HttpResponseError", !.failed_at = "client"]
        ELSE [checked EXCEPT !.trace.creates = Bump(s.trace.creates),
                             !.service.index_exists = TRUE,
                             !.service.index_fields = s.inst.metadata_fields,
                             !.inst.client = TRUE,
                             !.trace.search_clients = Bump(s.trace.search_clients)]

\* the state a call starts from
AzStart ==
    [service |-> az_service, inst |-> az_inst, trace |-> az_trace,
     outcome |-> "ok", failed_at |-> "none"]

\* The loop of write_documents over the batch: one client access and one
\* get_document per document, then the policy decides; a document to write is
\* converted at once (which may set _dummy_vector).  An element that is not a
\* Document has no id (AttributeError); an id that is not a str is the key of no
\* document of the index, and _convert_input_document raises Exception for it.
RECURSIVE WriteLoop(_, _, _, _, _, _)
WriteLoop(s, documents, policy, fault, i, to_write) ==
    IF i > Len(documents) THEN [s |-> s, to_write |-> to_write]
    ELSE
    LET c == Client(s, fault, i)
        doc == documents[i]
        converted == [c EXCEPT !.inst.dummy_vector =
                         c.inst.dummy_vector \/ doc.embedding = NoEmbedding]
    IN  IF c.outcome # "ok" THEN [s |-> c, to_write |-> to_write]
        ELSE IF ~IsDocument(doc)
        THEN [s |-> [c EXCEPT !.outcome = "AttributeError", !.failed_at = "convert"],
              to_write |-> to_write]
        ELSE IF fault.step = "get_document" /\ fault.at = i
        THEN [s |-> [c EXCEPT !.outcome = "HttpResponseError",
                              !.failed_at = "get_document"],
              to_write |-> to_write]
        ELSE IF ~IsStr(doc.id)
        THEN [s |-> [c EXCEPT !.outcome = "Exception", !.failed_at = "arguments"],
              to_write |-> to_write]
        ELSE IF doc.id \in StoredIds(c.service.docs)
        THEN CASE policy = "SKIP" ->
                    WriteLoop(c, documents, policy, fault, i + 1, to_write)
               [] policy = "FAIL" ->
                    [s |-> [c EXCEPT !.outcome = "DuplicateDocumentError",
                                     !.failed_at = "duplicate"],
                     to_write |-> to_write]
               [] policy = "OVERWRITE" ->
                    WriteLoop(converted, documents, policy, fault, i + 1,
                              Append(to_write, DefaultIndexMapping(doc)))
               [] OTHER ->
                    WriteLoop(c, documents, policy, fault, i + 1, to_write)
        ELSE WriteLoop(converted, documents, policy, fault, i + 1,
                       Append(to_write, DefaultIndexMapping(doc)))

\* write_documents: the loop, then one merge_or_upload_documents request with the
\* documents to write when there are any; the length of that list is returned.
AzWriteDocuments(s0, documents, policy, fault) ==
    LET l == WriteLoop(s0, documents, policy, fault, 1, << >>)
        c == Client(l.s, NoFault, 0)
    IN  IF ~IsDocument(documents[1])
        THEN [s |-> [s0 EXCEPT !.outcome = "ValueError", !.failed_at = "arguments"],
              returned |-> 0]
        ELSE IF l.s.outcome # "ok" THEN [s |-> l.s, returned |-> 0]
        ELSE IF l.to_write = << >> THEN [s |-> l.s, returned |-> 0]
        ELSE IF fault.step = "upload" \/ ~Declared(c.service.index_fields, l.to_write)
        THEN [s |-> [c EXCEPT !.outcome = "HttpResponseError", !.failed_at = "upload"],
              returned |-> 0]
        ELSE [s |-> [c EXCEPT !.service.docs = MergeOrUpload(c.service.docs, l.to_write, 1)],
              returned |-> Len(l.to_write)]

az_write_documents(documents, policy, fault) ==
    /\ LET w == AzWriteDocuments(AzStart, documents, policy, fault)
       IN  /\ az_service' = w.s.service
           /\ az_inst' = w.s.inst
           /\ az_trace' = w.s.trace
           /\ last' = Call("write_documents", "azure", documents, policy, az_service.docs,
                           w.s.outcome, w.s.failed_at, w.returned, {})
    /\ UNCHANGED <<store_class, twin, pgVars>>

\* count_documents(): client.get_document_count()
AzCountDocuments(s0, fault) ==
    LET c == Client(s0, fault, 1)
    IN  IF c.outcome # "ok" THEN [s |-> c, returned |-> 0]
        ELSE IF fault.step = "search"
        THEN [s |-> [c EXCEPT !.outcome = "HttpResponseError", !.failed_at = "count"],
              returned |-> 0]
        ELSE [s |-> c, returned |-> Cardinality(c.service.docs)]

az_count_documents(fault) ==
    /\ LET r == AzCountDocuments(AzStart, fault)
       IN  /\ az_service' = r.s.service
           /\ az_inst' = r.s.inst
           /\ az_trace' = r.s.trace
           /\ last' = Call("count_documents", "azure", << >>, "NONE", az_service.docs,
                           r.s.outcome, r.s.failed_at, r.returned, {})
    /\ UNCHANGED <<store_class, twin, pgVars>>

\* create_index(index_name) called on the store: the declared metadata fields are
\* mapped first (ValueError), then the request goes to self._index_client, which is
\* None until the client property was read (AttributeError); the service rejects the
\* request for an index that exists.  Neither _client nor the lookup is touched.
CreateIndex(s, fault) ==
    IF ~MapMetadataFieldTypes(s.inst.metadata_fields)
    THEN [s EXCEPT !.outcome = "ValueError", !.failed_at = "metadata_fields"]
    ELSE IF ~s.inst.index_client
    THEN [s EXCEPT !.outcome = "AttributeError", !.failed_at = "index_client"]
    ELSE IF fault.step = "create_index" \/ s.service.index_exists
    THEN [s EXCEPT !.trace.creates = Bump(s.trace.creates),
                   !.outcome = "HttpResponseError", !.failed_at = "client"]
    ELSE [s EXCEPT !.trace.creates = Bump(s.trace.creates),
                   !.service.index_exists = TRUE,
                   !.service.index_fields = s.inst.metadata_fields]

CreateIndexReturns(c) ==
    /\ az_service' = c.service
    /\ az_inst' = c.inst
    /\ az_trace' = c.trace
    /\ last' = Call("create_index", "azure", << >>, "NONE", az_service.docs,
                    c.outcome, c.failed_at, 0, {})

\* store.create_index(index_name): an empty name stands for the configured one, the
\* only index followed here
az_create_index(index_name, fault) ==
    /\ CreateIndexReturns(CreateIndex(AzStart, fault))
    /\ UNCHANGED <<store_class, twin, pgVars>>

\* _convert_search_result_to_documents, one search result: the embedding is kept
\* unless it equals self._dummy_vector; the metadata fields are not read back
ConvertSearchResult(x) ==
    [id |-> x.id, content |-> x.content,
     embedding |-> IF x.embedding # DummyVector THEN x.embedding ELSE NoEmbedding,
     meta |-> EmptyMeta]

\* filter_documents(filters): self.client.search(search_text="*",
\* top=self.count_documents()) and the conversion of the results; `filters` is not
\* read.  Comparing an embedding with
\* self._dummy_vector fails with AttributeError on an instance that never set it.
AzFilterDocuments(s0, fault) ==
    LET c1 == Client(s0, fault, 1)
        c2 == Client(c1, NoFault, 0)
    IN  IF c1.outcome # "ok" THEN [s |-> c1, result |-> {}]
        ELSE IF fault.step = "search"
        THEN [s |-> [c2 EXCEPT !.outcome = "HttpResponseError", !.failed_at = "search"],
              result |-> {}]
        ELSE IF c2.service.docs # {} /\ ~c2.inst.dummy_vector
        THEN [s |-> [c2 EXCEPT !.outcome = "AttributeError", !.failed_at = "convert"],
              result |-> {}]
        ELSE [s |-> c2, result |-> {ConvertSearchResult(x) : x \in c2.service.docs}]

az_filter_documents(filters, fault) ==
    /\ LET r == AzFilterDocuments(AzStart, fault)
       IN  /\ az_service' = r.s.service
           /\ az_inst' = r.s.inst
           /\ az_trace' = r.s.trace
           /\ last' = [Call("filter_documents", "azure", last.documents, last.policy,
                            az_service.docs, r.s.outcome, r.s.failed_at, 0, r.result)
                         EXCEPT !.filters = filters]
    /\ UNCHANGED <<store_class, twin, pgVars>>

AzDeleteFaults(document_ids) ==
    { [step |-> "get_document", at |-> i] : i \in 1..Len(document_ids) }
    \cup { [step |-> "list_index_names", at |-> 1] }
    \cup { [step |-> s, at |-> 0] : s \in {"create_index", "delete"} }

\* get_documents(document_ids): one client access and one get_document per id; an
\* id the index does not hold raises ResourceNotFoundError, which is logged
RECURSIVE GetDocuments(_, _, _, _, _)
GetDocuments(s, document_ids, fault, i, documents) ==
    IF i > Len(document_ids) THEN [s |-> s, documents |-> documents]
    ELSE
    LET c == Client(s, fault, i)
        found == {x \in c.service.docs : IdText(x.id) = document_ids[i]}
    IN  IF c.outcome # "ok" THEN [s |-> c, documents |-> documents]
        ELSE IF fault.step = "get_document" /\ fault.at = i
        THEN [s |-> [c EXCEPT !.outcome = "HttpResponseError",
                              !.failed_at = "get_document"],
              documents |-> documents]
        ELSE IF found = {}
        THEN GetDocuments(c, document_ids, fault, i + 1, documents)
        ELSE GetDocuments(c, document_ids, fault, i + 1,
                          Append(documents, CHOOSE x \in found : TRUE))

\* client.delete_documents(documents): one request, sent when get_documents
\* returned anything; the service deletes by key
DeleteFound(g, fault) ==
    LET c == Client(g.s, NoFault, 0)
        keys == {g.documents[i].id : i \in 1..Len(g.documents)}
    IN  IF g.s.outcome # "ok" \/ g.documents = << >> THEN [s |-> g.s, requests |-> 0]
        ELSE IF fault.step = "delete"
        THEN [s |-> [c EXCEPT !.outcome = "HttpResponseError", !.failed_at = "delete"],
              requests |-> 1]
        ELSE [s |-> [c EXCEPT !.service.docs = {x \in c.service.docs : x.id \notin keys}],
              requests |-> 1]

\* delete_documents(document_ids): `self.count_documents == 0` compares the bound
\* method with 0 and is never true, so get_documents always runs
AzDeleteDocuments(s0, document_ids, fault) ==
    DeleteFound(GetDocuments(s0, document_ids, fault, 1, << >>), fault)

DeleteReturns(r, document_ids) ==
    /\ az_service' = r.s.service
    /\ az_inst' = r.s.inst
    /\ az_trace' = r.s.trace
    /\ last' = [Call("delete_documents", "azure", << >>, "NONE", az_service.docs,
                     r.s.outcome, r.s.failed_at, 0, {})
                  EXCEPT !.delete = [document_ids |-> document_ids,
                                     requests |-> r.requests]]

az_delete_documents(document_ids, fault) ==
    /\ DeleteReturns(AzDeleteDocuments(AzStart, document_ids, fault), document_ids)
    /\ UNCHANGED <<store_class, twin, pgVars>>

----------------------------------------------------------------------------
(* Specification *)

\* The search service when the store is constructed: without the index, or with the
\* index and one document that another store instance of the same configuration
\* wrote without an embedding.
AzServices ==
    { NoSearchIndex } \cup
    { SearchIndex({DefaultIndexMapping(d)}) :
        d \in {x \in Documents : x.embedding = NoEmbedding} }

DefaultConfig ==
    [recreate_table |-> FALSE, search_strategy |-> "exact_nearest_neighbor",
     vector_function |-> "cosine_similarity", hnsw_recreate_index_if_exists |-> FALSE,
     hnsw_index_creation_kwargs |-> {}, hnsw_ef_search |-> 0]

\* no backend call has been issued
NoTrace ==
    [init_runs |-> 0, connections |-> 0, index_checks |-> 0, drops |-> 0, builds |-> 0,
     ef_sets |-> 0, warnings |-> 0, handle_runs |-> 0, handled |-> "none",
     init_found |-> "unchecked", init_handled |-> "none", table_drops |-> 0]

Init ==
    /\ store_class \in {"pgvector", "azure"}
    /\ pipeline \in (IF store_class = "pgvector" THEN BOOLEAN ELSE {FALSE})
    /\ config = DefaultConfig
    /\ pg_db = [table |-> FALSE, rows |-> {}, keyword_index |-> FALSE,
                hnsw_index |-> NoIndex]
    /\ pg_connection = FALSE
    /\ pg_session = 0
    /\ schema_is_initialized = FALSE
    /\ pg_trace = NoTrace
    /\ az_service \in (IF store_class = "azure" THEN AzServices
                       ELSE {NoSearchIndex})
    /\ az_inst = NewInstance(DefaultMetadataFields)
    /\ az_trace = [exists_checks |-> 0, creates |-> 0, search_clients |-> 0]
    /\ last = Idle
    /\ twin = Idle

\* a write_documents call has just returned normally
WriteReturnedOk == last.op = "write_documents" /\ last.outcome = "ok"

PgWrite ==
    /\ store_class = "pgvector"
    /\ last = Idle
    /\ \E documents \in Batches, policy \in Policies :
        \E fault \in {NoFault} \cup PgSessionFaults \cup PgStatementFaults(documents) :
            pg_write_documents(documents, policy, fault)

PgFilter ==
    /\ store_class = "pgvector"
    /\ last = Idle \/ WriteReturnedOk
    /\ \E fault \in {NoFault, PgExecuteFault} \cup PgSessionFaults :
        pg_filter_documents(NoFilters, fault)

PgCount ==
    /\ store_class = "pgvector"
    /\ last = Idle
    /\ \E fault \in {NoFault, PgExecuteFault} \cup PgSessionFaults : pg_count_documents(fault)

AzWrite ==
    /\ store_class = "azure"
    /\ last = Idle
    /\ \E documents \in Batches, policy \in Policies :
        \E fault \in {NoFault} \cup AzWriteFaults(documents) :
            az_write_documents(documents, policy, fault)

AzFilter ==
    /\ store_class = "azure"
    /\ last = Idle \/ WriteReturnedOk
    /\ \E fault \in {NoFault} \cup AzReadFaults :
        az_filter_documents(NoFilters, fault)

AzCount ==
    /\ store_class = "azure"
    /\ last = Idle
    /\ \E fault \in {NoFault} \cup AzReadFaults :
        az_count_documents(fault)

\* the caller takes the outcome of the call that returned
Return ==
    /\ last # Idle
    /\ last' = Idle
    /\ UNCHANGED <<store_class, twin, pgVars, azVars>>

Next == PgWrite \/ PgFilter \/ PgCount \/ AzWrite \/ AzFilter \/ AzCount \/ Return

Spec == Init /\ [][Next]_vars

----------------------------------------------------------------------------
(* One caller drives a store of each class with the same write calls.  Both *)
(* stores start from the same documents, written earlier one batch of       *)
(* distinct ids at a time; no backend failure occurs.                        *)

\* the documents a store may hold: at most one per id
Contents == { c \in SUBSET Documents : \A x, y \in c : x.id = y.id => x = y }

InitEquiv ==
    /\ store_class = "both"
    /\ pipeline \in BOOLEAN
    /\ config = DefaultConfig
    /\ \E c \in Contents :
          /\ pg_db = [table |-> TRUE, rows |-> {FromHaystackToPg(d) : d \in c},
                      keyword_index |-> TRUE, hnsw_index |-> NoIndex]
          /\ az_service = SearchIndex({DefaultIndexMapping(d) : d \in c})
          /\ az_inst = [index_client |-> TRUE, client |-> TRUE,
                        dummy_vector |-> (\E d \in c : d.embedding = NoEmbedding),
                        metadata_fields |-> DefaultMetadataFields]
    /\ pg_connection = FALSE
    /\ pg_session = 0
    /\ schema_is_initialized = TRUE
    /\ pg_trace = [NoTrace EXCEPT !.init_runs = 1, !.connections = 1]
    /\ az_trace = [exists_checks |-> 2, creates |-> 1, search_clients |-> 2]
    /\ last = Idle
    /\ twin = Idle

\* write_documents(documents, policy) on the pgvector store and on the Azure store
WriteBoth ==
    /\ last = Idle
    /\ \E documents \in Batches, policy \in Policies :
         LET w == PgWriteDocuments(pg_db, config, schema_is_initialized,
                                   pg_trace, documents, policy, NoFault, pipeline)
             z == AzWriteDocuments(AzStart, documents, policy, NoFault)
         IN  /\ pg_db' = w.db
             /\ az_service' = z.s.service
             /\ az_inst' = z.s.inst
             /\ az_trace' = z.s.trace
             /\ last' = Call("write_documents", "pgvector", documents, policy, pg_db.rows,
                             w.outcome, w.failed_at, w.returned, {})
             /\ twin' = Call("write_documents", "azure", documents, policy,
                             az_service.docs, z.s.outcome, z.s.failed_at, z.returned, {})
             /\ pg_trace' = w.trace
    /\ UNCHANGED <<store_class, pipeline, config, pg_connection, pg_session,
                   schema_is_initialized>>

ReturnBoth ==
    /\ last # Idle
    /\ last' = Idle
    /\ twin' = Idle
    /\ UNCHANGED <<store_class, pgVars, azVars>>

NextEquiv == WriteBoth \/ ReturnBoth

SpecEquiv == InitEquiv /\ [][NextEquiv]_vars

----------------------------------------------------------------------------
(* The pgvector store under every search configuration, on a database that   *)
(* may already hold the table and an hnsw index of the configured name built *)
(* by an earlier store instance.                                             *)

IndexConfigs ==
    [recreate_table : BOOLEAN,
     search_strategy : {"exact_nearest_neighbor", "hnsw"},
     vector_function : {"cosine_similarity", "l2_distance"},
     hnsw_recreate_index_if_exists : BOOLEAN,
     hnsw_index_creation_kwargs : {{}, {<<"m", 16>>, <<"fillfactor", 50>>}},
     hnsw_ef_search : {0, 64}]

\* the indexes an earlier instance may have left
EarlierIndexes ==
    { [exists |-> TRUE, ops |-> VECTOR_FUNCTION_TO_POSTGRESQL_OPS(f), kwargs |-> {}] :
        f \in {"cosine_similarity", "l2_distance"} }

IndexDatabases ==
    { [table |-> FALSE, rows |-> {}, keyword_index |-> FALSE, hnsw_index |-> NoIndex] }
    \cup { [table |-> TRUE, rows |-> {}, keyword_index |-> TRUE, hnsw_index |-> i] :
             i \in {NoIndex} \cup EarlierIndexes }

\* the documents written under this specification
IndexDocuments == { d \in Documents : d.id = "a" /\ d.content = "c2" }

InitIndex ==
    /\ store_class = "pgvector"
    /\ pipeline = TRUE
    /\ config \in IndexConfigs
    /\ pg_db \in IndexDatabases
    /\ pg_connection = FALSE
    /\ pg_session = 0
    /\ schema_is_initialized = FALSE
    /\ pg_trace = NoTrace
    /\ az_service = NoSearchIndex
    /\ az_inst = NewInstance(DefaultMetadataFields)
    /\ az_trace = [exists_checks |-> 0, creates |-> 0, search_clients |-> 0]
    /\ last = Idle
    /\ twin = Idle

IxWrite ==
    /\ last = Idle
    /\ \E d \in IndexDocuments :
        \E fault \in {NoFault} \cup PgSessionFaults \cup PgIndexFaults :
            pg_write_documents(<<d>>, "OVERWRITE", fault)

IxRetrieve ==
    /\ last = Idle
    /\ \E query_embedding \in {E1, <<1>>, << >>},
          vector_function \in {"None", "cosine_similarity", "l2_distance", "dot"},
          use_index \in BOOLEAN :
        \E fault \in {NoFault, PgExecuteFault} \cup PgIndexFaults :
            pg_embedding_retrieval(query_embedding, DefaultTopK, vector_function,
                                   use_index, fault)

IxCount ==
    /\ last = Idle
    /\ \E fault \in {NoFault} \cup PgIndexFaults : pg_count_documents(fault)

\* _init_schema calls _handle_hnsw under the hnsw strategy only
IxHandleHnsw ==
    /\ last = Idle
    /\ config.search_strategy = "hnsw"
    /\ \E fault \in {NoFault} \cup PgIndexFaults : pg_handle_hnsw(fault)

NextIndex == IxWrite \/ IxRetrieve \/ IxCount \/ IxHandleHnsw \/ Return

SpecIndex == InitIndex /\ [][NextIndex]_vars

----------------------------------------------------------------------------
(* delete_documents on a store of either class whose backend holds documents *)
(* written by an earlier instance of the same configuration.                 *)

InitDelete ==
    /\ store_class \in {"pgvector", "azure"}
    /\ pipeline = FALSE
    /\ config = DefaultConfig
    /\ \E c \in Contents :
          /\ pg_db = [table |-> TRUE,
                      rows |-> IF store_class = "pgvector"
                               THEN {FromHaystackToPg(d) : d \in c} ELSE {},
                      keyword_index |-> TRUE, hnsw_index |-> NoIndex]
          /\ az_service = SearchIndex(IF store_class = "azure"
                                       THEN {DefaultIndexMapping(d) : d \in c} ELSE {})
    /\ pg_connection = FALSE
    /\ pg_session = 0
    /\ schema_is_initialized = FALSE
    /\ pg_trace = NoTrace
    /\ az_inst = NewInstance(DefaultMetadataFields)
    /\ az_trace = [exists_checks |-> 0, creates |-> 0, search_clients |-> 0]
    /\ last = Idle
    /\ twin = Idle

PgDelete ==
    /\ store_class = "pgvector"
    /\ last = Idle
    /\ \E document_ids \in IdLists(PlainIds \cup QuoteIds) :
        \E fault \in {NoFault, PgExecuteFault} \cup PgSessionFaults :
            pg_delete_documents(document_ids, fault)

\* the keys of an Azure index hold no quote
AzDelete ==
    /\ store_class = "azure"
    /\ last = Idle
    /\ \E document_ids \in IdLists(PlainIds) :
        \E fault \in {NoFault} \cup AzDeleteFaults(document_ids) :
            az_delete_documents(document_ids, fault)

NextDelete == PgDelete \/ AzDelete \/ Return

SpecDelete == InitDelete /\ [][NextDelete]_vars

----------------------------------------------------------------------------
(* filter_documents with a filter expression, on a store of either class that *)
(* wrote its documents itself.                                                *)

FxWrite ==
    /\ last = Idle
    /\ \E documents \in Batches :
        IF store_class = "pgvector"
        THEN pg_write_documents(documents, "OVERWRITE", NoFault)
        ELSE az_write_documents(documents, "OVERWRITE", NoFault)

FxPgFilter ==
    /\ store_class = "pgvector"
    /\ last = Idle
    /\ \E filters \in {NoFilters, MalformedFilters} \cup FilterExpressions :
        \E fault \in {NoFault, PgExecuteFault} :
            pg_filter_documents(filters, fault)

FxAzFilter ==
    /\ store_class = "azure"
    /\ last = Idle
    /\ \E filters \in {NoFilters, MalformedFilters} \cup FilterExpressions :
        \E fault \in {NoFault} \cup AzReadFaults :
            az_filter_documents(filters, fault)

NextFilter == FxWrite \/ FxPgFilter \/ FxAzFilter \/ Return

SpecFilter == Init /\ [][NextFilter]_vars

----------------------------------------------------------------------------
(* Similarity search on a pgvector store whose table holds documents written *)
(* by an earlier instance, some of them without an embedding.                *)

\* an embedding without negative components: k first, then ones
Scaled(k) == [i \in 1..embedding_dimension |-> IF i = 1 THEN k ELSE 1]

SearchEmbeddings == {NoEmbedding, Scaled(1), Scaled(2), Scaled(3)}

\* the tables searched: one document per id
SearchTables ==
    { {[id |-> i, embedding |-> f[i], content |-> "c1", meta |-> EmptyMeta] : i \in Ids \cup {"c"}} :
        f \in [Ids \cup {"c"} -> SearchEmbeddings] }

InitSearch ==
    /\ store_class = "pgvector"
    /\ pipeline = FALSE
    /\ config \in {[DefaultConfig EXCEPT !.vector_function = f] : f \in VALID_VECTOR_FUNCTIONS}
    /\ pg_db \in {[table |-> TRUE, rows |-> t, keyword_index |-> TRUE, hnsw_index |-> NoIndex] :
                     t \in SearchTables}
    /\ pg_connection = FALSE
    /\ pg_session = 0
    /\ schema_is_initialized = FALSE
    /\ pg_trace = NoTrace
    /\ az_service = NoSearchIndex
    /\ az_inst = NewInstance(DefaultMetadataFields)
    /\ az_trace = [exists_checks |-> 0, creates |-> 0, search_clients |-> 0]
    /\ last = Idle
    /\ twin = Idle

SxRetrieve ==
    /\ last = Idle
    /\ \E top_k \in 1..MaxTopK, vector_function \in {"None"} \cup VALID_VECTOR_FUNCTIONS :
        \E fault \in {NoFault, PgExecuteFault} :
            pg_embedding_retrieval(Scaled(2), top_k, vector_function, FALSE, fault)

NextSearch == SxRetrieve \/ Return

SpecSearch == InitSearch /\ [][NextSearch]_vars

----------------------------------------------------------------------------
(* write_documents with batches that may hold an element that is not a Document *)
(* or a Document whose id is not a str.                                          *)

BatchElements ==
    { d \in Documents : d.content = "c2" /\ d.embedding = E1 }
    \cup { [id |-> i, content |-> "c2", embedding |-> E1, meta |-> EmptyMeta] :
              i \in NonStringIds }
    \cup { NotADocument }

BxPgWrite ==
    /\ store_class = "pgvector"
    /\ last = Idle
    /\ \E documents \in BatchesOf(BatchElements), policy \in Policies :
        \E fault \in {NoFault} \cup PgStatementFaults(documents) :
            pg_write_documents(documents, policy, fault)

BxAzWrite ==
    /\ store_class = "azure"
    /\ last = Idle
    /\ \E documents \in BatchesOf(BatchElements), policy \in Policies :
        \E fault \in {NoFault} \cup AzWriteFaults(documents) :
            az_write_documents(documents, policy, fault)

NextBatch == BxPgWrite \/ BxAzWrite \/ Return

SpecBatch == Init /\ [][NextBatch]_vars

----------------------------------------------------------------------------
(* The Azure store constructed with metadata_fields, on a search service that *)
(* may already hold the index.                                                *)

MetadataFieldSets == {NoMetadataFields, DefaultMetadataFields, {<<"k", "list">>}}

InitMeta ==
    /\ store_class = "azure"
    /\ pipeline = FALSE
    /\ config = DefaultConfig
    /\ pg_db = [table |-> FALSE, rows |-> {}, keyword_index |-> FALSE,
                hnsw_index |-> NoIndex]
    /\ pg_connection = FALSE
    /\ pg_session = 0
    /\ schema_is_initialized = FALSE
    /\ pg_trace = NoTrace
    /\ az_service \in AzServices
    /\ az_inst \in {NewInstance(m) : m \in MetadataFieldSets}
    /\ az_trace = [exists_checks |-> 0, creates |-> 0, search_clients |-> 0]
    /\ last = Idle
    /\ twin = Idle

MxCreateIndex ==
    /\ last = Idle
    /\ \E index_name \in {"", "default"} :
        \E fault \in {NoFault, [step |-> "create_index", at |-> 0]} :
            az_create_index(index_name, fault)

NextMeta == AzWrite \/ AzFilter \/ AzCount \/ MxCreateIndex \/ Return

SpecMeta == InitMeta /\ [][NextMeta]_vars

----------------------------------------------------------------------------
(* The statements of delete_documents, _embedding_retrieval and _keyword_retrieval *)
(* on a pgvector store whose table holds documents.                                *)

KeywordQueries == {"", "c1", "zz"}

InitQuery == InitDelete /\ store_class = "pgvector"

QxEmbedding ==
    /\ last = Idle
    /\ \E query_embedding \in {Scaled(1), Scaled(2)}, top_k \in {1, DefaultTopK},
          vector_function \in {"None"} \cup VALID_VECTOR_FUNCTIONS :
        \E fault \in {NoFault, PgExecuteFault} \cup PgSessionFaults :
            pg_embedding_retrieval(query_embedding, top_k, vector_function, FALSE, fault)

QxKeyword ==
    /\ last = Idle
    /\ \E query \in KeywordQueries, top_k \in {1, DefaultTopK} :
        \E fault \in {NoFault, PgExecuteFault} \cup PgSessionFaults :
            pg_keyword_retrieval(query, top_k, fault)

NextQuery == PgDelete \/ QxEmbedding \/ QxKeyword \/ Return

SpecQuery == InitQuery /\ [][NextQuery]_vars

----------------------------------------------------------------------------
(* A pgvector store, configured with or without recreate_table, on a database *)
(* whose table already holds documents of an earlier instance.                *)

RecreateDocuments == { d \in Documents : d.embedding = E1 /\ d.content = "c2" }

InitRecreate ==
    /\ store_class = "pgvector"
    /\ pipeline = FALSE
    /\ config \in {[DefaultConfig EXCEPT !.recreate_table = r] : r \in BOOLEAN}
    /\ pg_db \in {[table |-> TRUE, rows |-> t, keyword_index |-> TRUE, hnsw_index |-> NoIndex] :
                     t \in SUBSET {FromHaystackToPg(d) : d \in RecreateDocuments}}
    /\ pg_connection = FALSE
    /\ pg_session = 0
    /\ schema_is_initialized = FALSE
    /\ pg_trace = NoTrace
    /\ az_service = NoSearchIndex
    /\ az_inst = NewInstance(DefaultMetadataFields)
    /\ az_trace = [exists_checks |-> 0, creates |-> 0, search_clients |-> 0]
    /\ last = Idle
    /\ twin = Idle

RxWrite ==
    /\ last = Idle
    /\ \E documents \in BatchesOf(RecreateDocuments), policy \in Policies :
        \E fault \in {NoFault} \cup PgSessionFaults \cup PgStatementFaults(documents) :
            pg_write_documents(documents, policy, fault)

RxCount ==
    /\ last = Idle
    /\ \E fault \in {NoFault, PgExecuteFault} \cup PgSessionFaults : pg_count_documents(fault)

RxFilter ==
    /\ last = Idle
    /\ \E filters \in {NoFilters, MalformedFilters} \cup FilterExpressions :
        \E fault \in {NoFault, PgExecuteFault} \cup PgSessionFaults :
            pg_filter_documents(filters, fault)

RxDelete ==
    /\ last = Idle
    /\ \E document_ids \in IdLists(PlainIds) :
        \E fault \in {NoFault, PgExecuteFault} \cup PgSessionFaults :
            pg_delete_documents(document_ids, fault)

RxDeleteTable ==
    /\ last = Idle
    /\ \E fault \in {NoFault, PgExecuteFault} \cup PgSessionFaults : pg_delete_table(fault)

NextRecreate ==
    \/ RxWrite \/ RxCount \/ RxFilter \/ RxDelete \/ RxDeleteTable
    \/ QxEmbedding \/ QxKeyword \/ Return

SpecRecreate == InitRecreate /\ [][NextRecreate]_vars

----------------------------------------------------------------------------
(* Properties *)

\* what the backend of the store under test holds
Stored == IF store_class = "pgvector" THEN pg_db.rows ELSE az_service.docs

\* the record the backend holds for a Document written as a whole
StoredFor(d) == IF store_class = "pgvector" THEN FromHaystackToPg(d) ELSE DefaultIndexMapping(d)

WriteReturned == last.op = "write_documents"

\* the call ended at a step where the backend itself reported a failure
BackendFailed ==
    last.failed_at \in {"connection", "init_schema", "handle_hnsw", "statement",
                        "execute", "client", "get_document", "upload", "search", "count",
                        "delete"}

\* the ids of the batch that were stored when the call started
Existing == BatchIds(last.documents) \cap StoredIds(last.before)

\* the positions of the batch whose id occurs at no later position
LastOccurrences ==
    { i \in 1..Len(last.documents) :
        \A j \in (i + 1)..Len(last.documents) : last.documents[j].id # last.documents[i].id }

\* C1: write_documents(batch, FAIL) with an id of the batch already stored fails with
\* DuplicateDocumentError and leaves the stored mapping as it was before the call:
\* no document that precedes the duplicate in the batch is persisted.
C1_FailWritesNothing ==
    (WriteReturned /\ last.policy = "FAIL" /\ Existing # {} /\ ~BackendFailed)
        => (last.outcome = "DuplicateDocumentError" /\ Stored = last.before)

\* C2: when the backend reports an integrity violation or an execution error while
\* applying a document of the batch, the stored mapping after the call equals the
\* mapping before it.
C2_WriteIsAtomic ==
    (WriteReturned /\ last.inst = "pgvector" /\ last.failed_at \in {"duplicate", "statement"})
        => pg_db.rows = last.before

\* C3: after write_documents(batch, OVERWRITE), for every id of the batch the stored
\* document is the incoming one in all fields (the last one of that id in the
\* batch): nothing of the previously stored version survives.
C3_OverwriteReplaces ==
    (WriteReturned /\ last.policy = "OVERWRITE" /\ last.outcome = "ok")
        => \A i \in LastOccurrences :
              /\ last.documents[i].id \in StoredIds(Stored)
              /\ ById(Stored, last.documents[i].id) = StoredFor(last.documents[i])

\* C4: write_documents(batch, SKIP): every document stored before the call keeps
\* exactly its value, the call never fails on an id that already exists, and when it
\* returns every id of the batch is stored (a new id that occurs once with the
\* incoming document) and no already stored id is counted.
C4_SkipKeepsExisting ==
    (WriteReturned /\ last.policy = "SKIP")
        => /\ last.before \subseteq Stored
           /\ last.failed_at # "duplicate"
           /\ last.outcome = "ok" =>
                /\ BatchIds(last.documents) \subseteq StoredIds(Stored)
                /\ \A i \in 1..Len(last.documents) :
                      (/\ last.documents[i].id \notin StoredIds(last.before)
                       /\ \A j \in 1..Len(last.documents) :
                            j # i => last.documents[j].id # last.documents[i].id)
                      => StoredFor(last.documents[i]) \in Stored
                /\ last.returned <=
                      Cardinality({ i \in 1..Len(last.documents) :
                                      last.documents[i].id \notin StoredIds(last.before) })

\* C4 witness: a SKIP write returned on a batch with a stored id and a new id
C4_Witness ==
    /\ WriteReturned /\ last.policy = "SKIP" /\ last.outcome = "ok"
    /\ Existing # {}
    /\ BatchIds(last.documents) \ StoredIds(last.before) # {}
    /\ \E r \in last.before : r.id \in Existing /\ r # StoredFor(last.documents[1])
                                /\ r.id = last.documents[1].id

\* C5: the integer write_documents returns is the number of documents the call
\* inserted or overwrote; under FAIL and SKIP the number of stored documents after a
\* successful call is the number before plus the returned value.
C5_ReturnedCount ==
    (WriteReturned /\ last.outcome = "ok" /\ last.policy \in {"FAIL", "SKIP"})
        => Cardinality(Stored) = Cardinality(last.before) + last.returned

\* the Document an index document of the search service stands for
AzToDocument(x) ==
    [id |-> x.id, content |-> x.content,
     embedding |-> IF x.embedding = DummyVector THEN NoEmbedding ELSE x.embedding,
     meta |-> x.fields]

\* C6: for the same stored documents, batch and policy in {FAIL, SKIP, OVERWRITE} the
\* pgvector write and the Azure write end with the same outcome (the same error or
\* the same returned count) and the same resulting id-to-document mapping.
C6_SameWriteContract ==
    (last.op = "write_documents" /\ twin.op = "write_documents" /\ last.policy # "NONE")
        => /\ last.outcome = twin.outcome
           /\ last.returned = twin.returned
           /\ {FromPgToHaystack(r) : r \in pg_db.rows}
                 = {AzToDocument(x) : x \in az_service.docs}

DomainOutcomes ==
    {"ok", "ConfigurationError", "FilterSyntaxError", "DuplicateDocumentError",
     "DocumentStoreError", "ValueError"}

\* C7: an operation that fails because of a backend failure ends with a domain
\* error; an exception of the backend library never reaches the caller.
C7_DomainErrorsOnly == BackendFailed => last.outcome \in DomainOutcomes

\* C8: write_documents([d], OVERWRITE) with d carrying an embedding of the configured
\* dimension, then filter_documents(): a document with the id, content, embedding
\* and metadata of d is returned.
C8_RoundTrip ==
    (/\ last.op = "filter_documents" /\ Len(last.documents) = 1
     /\ last.policy = "OVERWRITE" /\ Len(last.documents[1].embedding) = embedding_dimension
     /\ ~BackendFailed)
        => (last.outcome = "ok" /\ last.documents[1] \in last.result)

\* the stored record holds no embedding (NULL, or the dummy vector of the index)
WithoutEmbedding(r) ==
    IF store_class = "pgvector" THEN r.embedding = NoEmbedding ELSE r.embedding = DummyVector

\* C9: filter_documents returns every document stored without an embedding with
\* embedding = None, whichever instance wrote it, and no returned document carries
\* the placeholder vector.
C9_NoEmbeddingReadBack ==
    (last.op = "filter_documents" /\ ~BackendFailed)
        => /\ \A r \in last.before : WithoutEmbedding(r) =>
                 /\ last.outcome = "ok"
                 /\ \E d \in last.result : d.id = r.id /\ d.embedding = NoEmbedding
           /\ \A d \in last.result : d.embedding # DummyVector

\* C10: over any sequence of operations on one store instance the existence check
\* and the creation of the backing table or index run at most once.
C10_InitializedOnce ==
    /\ pg_trace.init_runs <= 1
    /\ az_trace.exists_checks <= 1
    /\ az_trace.creates <= 1

\* C11: a store instance opens at most one backend connection or client over its
\* lifetime: the first operation that needs it creates it and every later operation,
\* every write_documents call included, reuses it.
C11_OneConnection ==
    /\ pg_trace.connections <= 1
    /\ az_trace.search_clients <= 1

\* a similarity query under the hnsw strategy has just returned its documents
RetrievedUnderHnsw ==
    /\ last.op = "_embedding_retrieval"
    /\ last.outcome = "ok"
    /\ config.search_strategy = "hnsw"

\* C12: with the hnsw strategy and hnsw_ef_search configured, a similarity query
\* runs on a session whose hnsw.ef_search is the configured value, whichever
\* operation of the instance touched the backend first.
C12_EfSearchApplied ==
    (RetrievedUnderHnsw /\ config.hnsw_ef_search # 0)
        => last.query.ef_search = config.hnsw_ef_search

\* the step runs the schema initialization of the instance
InitStep == pg_trace.init_runs = 0 /\ pg_trace'.init_runs = 1

\* the index the configuration asks for
ConfiguredIndex(index) ==
    /\ index.exists
    /\ index.ops = VECTOR_FUNCTION_TO_POSTGRESQL_OPS(config.vector_function)
    /\ index.kwargs = {p \in config.hnsw_index_creation_kwargs :
                          p[1] \in {"m", "ef_construction"}}

\* C13: under the hnsw strategy, when the initialization finds no index of the
\* configured name, or finds one while hnsw_recreate_index_if_exists is set, and
\* ends normally, then the index exists and is built with the configured
\* vector_function and the configured m / ef_construction; an index that was found
\* has been dropped first.
C13_IndexBuilt ==
    [][ (/\ InitStep
         /\ pg_trace'.init_handled = "ok"
         /\ \/ pg_trace'.init_found = "absent"
            \/ pg_trace'.init_found = "present" /\ config.hnsw_recreate_index_if_exists)
        => /\ ConfiguredIndex(pg_db'.hnsw_index)
           /\ pg_trace'.builds >= 1
           /\ pg_trace'.init_found = "present" => pg_trace'.drops >= 1 ]_vars

\* C13 witness: the initialization found an index built for another metric by an
\* earlier instance and has rebuilt it with the configured metric and parameters
C13_Witness ==
    /\ pg_trace.init_handled = "ok"
    /\ pg_trace.init_found = "present"
    /\ config.hnsw_recreate_index_if_exists
    /\ config.vector_function = "l2_distance"
    /\ pg_db.hnsw_index = [exists |-> TRUE, ops |-> "vector_l2_ops", kwargs |-> {<<"m", 16>>}]

\* C14: under the hnsw strategy, when the initialization finds an index of the
\* configured name and hnsw_recreate_index_if_exists is not set, it issues neither
\* DROP INDEX nor CREATE INDEX, leaves the index as it was and logs a warning.
C14_ExistingIndexKept ==
    [][ (/\ InitStep
         /\ pg_trace'.init_handled = "ok"
         /\ pg_trace'.init_found = "present"
         /\ ~config.hnsw_recreate_index_if_exists)
        => /\ pg_db'.hnsw_index = pg_db.hnsw_index
           /\ pg_trace'.drops = 0
           /\ pg_trace'.builds = 0
           /\ pg_trace'.warnings >= 1 ]_vars

\* C14 witness: the initialization kept an index that an earlier instance built for
\* another metric than the configured one
C14_Witness ==
    /\ pg_trace.init_handled = "ok"
    /\ pg_trace.init_found = "present"
    /\ ~config.hnsw_recreate_index_if_exists
    /\ pg_trace.warnings >= 1
    /\ pg_db.hnsw_index.exists
    /\ pg_db.hnsw_index.ops # VECTOR_FUNCTION_TO_POSTGRESQL_OPS(config.vector_function)

\* C15: with hnsw_recreate_index_if_exists not set, a _handle_hnsw run that follows
\* a run that ended normally issues no CREATE INDEX and leaves the index as the
\* first run left it; two runs in a row issue at most one CREATE INDEX in total.
C15_HandleHnswIdempotent ==
    [][ /\ (/\ pg_trace.handled = "ok"
            /\ schema_is_initialized
            /\ last'.op = "_handle_hnsw"
            /\ last'.outcome = "ok"
            /\ ~config.hnsw_recreate_index_if_exists)
           => /\ pg_db'.hnsw_index = pg_db.hnsw_index
              /\ pg_trace'.builds = pg_trace.builds
        /\ (/\ pg_trace.handle_runs = 0
            /\ pg_trace'.handle_runs = 2
            /\ last'.outcome = "ok"
            /\ ~config.hnsw_recreate_index_if_exists)
           => pg_trace'.builds <= 1 ]_vars

\* C15 witness: _handle_hnsw has run twice, the first run built the index
C15_Witness ==
    /\ last.op = "_handle_hnsw"
    /\ last.outcome = "ok"
    /\ ~config.hnsw_recreate_index_if_exists
    /\ pg_trace.handle_runs = 2
    /\ pg_trace.builds = 1
    /\ pg_trace.warnings = 1
    /\ pg_db.hnsw_index.exists

\* C17: a failure of DROP INDEX or CREATE INDEX fails the operation that ran the
\* initialization with DocumentStoreError, and no similarity query of the instance
\* under the hnsw strategy returns documents while the configured index does not
\* exist.
C17_NoFallbackToExact ==
    /\ (/\ last.failed_at \in {"init_schema", "handle_hnsw"}
        /\ pg_trace.handled \in {"drop_index", "create_index"})
           => last.outcome = "DocumentStoreError"
    /\ (RetrievedUnderHnsw /\ pg_trace.init_handled \in {"drop_index", "create_index"})
           => pg_db.hnsw_index.exists

\* C18: with the exact strategy no operation issues an index existence check, a
\* DROP INDEX, a CREATE INDEX ... USING hnsw or SET hnsw.ef_search.
C18_ExactNoIndexAction ==
    config.search_strategy = "exact_nearest_neighbor"
        => /\ pg_trace.handle_runs = 0
           /\ pg_trace.index_checks = 0
           /\ pg_trace.drops = 0
           /\ pg_trace.builds = 0
           /\ pg_trace.ef_sets = 0
           /\ pg_session = 0

\* C18 witness: under the exact strategy, with hnsw options configured, the
\* initialization has run and a similarity query has returned
C18_Witness ==
    /\ config.search_strategy = "exact_nearest_neighbor"
    /\ config.hnsw_ef_search # 0
    /\ config.hnsw_recreate_index_if_exists
    /\ pg_trace.init_runs = 1
    /\ last.op = "_embedding_retrieval"
    /\ last.outcome = "ok"

\* C19: delete_documents(ids) on either backend leaves exactly the documents stored
\* before whose id is not in ids, each of them unchanged; with empty ids nothing is
\* deleted and no delete request is issued; no id given, stored or not, makes the
\* call fail: it ends with an error only when the backend itself failed.
C19_DeleteExactlyIds ==
    last.op = "delete_documents" =>
        /\ last.outcome = "ok" \/ BackendFailed
        /\ last.outcome = "ok" =>
              Stored = {r \in last.before : IdText(r.id) \notin IdsOf(last.delete.document_ids)}
        /\ last.delete.document_ids = << >> =>
              last.delete.requests = 0 /\ Stored = last.before
        /\ Stored \subseteq last.before

\* the Documents the backend of the store under test holds
StoredDocuments ==
    IF store_class = "pgvector" THEN {FromPgToHaystack(r) : r \in pg_db.rows}
    ELSE {AzToDocument(x) : x \in az_service.docs}

\* C20: filter_documents(filters) that returns normally returns the stored documents
\* that satisfy the filter expression and no other (all of them when no filter is
\* given): the ids returned are the ids of the stored documents that satisfy it, so
\* the same filter over the same documents selects the same ids on both backends.
C20_FilterSelectsMatching ==
    (last.op = "filter_documents" /\ last.outcome = "ok"
        /\ last.filters.kind # "malformed") =>
        {d.id : d \in last.result} =
            {d.id : d \in {x \in StoredDocuments : Satisfies(last.filters, x)}}

\* C21: filter_documents called with a filter expression that has neither of the two
\* keys is rejected on either backend before anything is sent to the backend: the
\* call ends with an error raised on its arguments.
C21_MalformedFilterRejected ==
    (last.op = "filter_documents" /\ last.filters.kind = "malformed") =>
        last.outcome # "ok" /\ last.failed_at = "arguments"

\* C22: _embedding_retrieval called with a query embedding whose length is not
\* embedding_dimension (the empty one included) ends with ValueError and touches no
\* backend: no connection is opened, the schema initialization does not run and no
\* statement is executed, so the database, the session and the instance are as before.
C22_WrongLengthNoBackendCall ==
    [][ (last = Idle /\ last'.op = "_embedding_retrieval"
            /\ Len(last'.query.query_embedding) # embedding_dimension)
        => (last'.outcome = "ValueError" /\ UNCHANGED pgVars) ]_vars

C22_Witness ==
    /\ last.op = "_embedding_retrieval"
    /\ last.query.query_embedding \in {<<1>>, << >>}
    /\ last.outcome = "ValueError"
    /\ ~pg_connection /\ ~schema_is_initialized
    /\ pg_trace = NoTrace

\* score x is the score of a better match than score y under the metric: x is a
\* score, and y is none or is further from the query
BetterMatch(x, y, vector_function) ==
    /\ ~x.null
    /\ \/ y.null
       \/ IF vector_function = "l2_distance" THEN ScoreLess(x, y) ELSE ScoreLess(y, x)

\* C23: a similarity search that returns normally returns at most top_k documents,
\* best match first under the metric of the call (higher score first for
\* cosine_similarity and inner_product, lower first for l2_distance): no document
\* stands after a worse match; the score reported for inner_product is the inner
\* product of the stored embedding and the query embedding.
C23_BestFirst ==
    (last.op = "_embedding_retrieval" /\ last.outcome = "ok") =>
        LET ranked == last.query.ranked
        IN  /\ Len(ranked) <= last.query.top_k
            /\ \A i, j \in 1..Len(ranked) :
                  i < j => ~BetterMatch(ranked[j].score, ranked[i].score,
                                        last.query.vector_function)
            /\ \A i \in 1..Len(ranked) :
                  (last.query.vector_function = "inner_product" /\ ~ranked[i].score.null) =>
                      ranked[i].score.num =
                          Dot(ById(last.before, ranked[i].id).embedding,
                              last.query.query_embedding, 1)

\* C24: write_documents with a batch that holds, at any position, an element that is
\* not a Document or a Document whose id is not a str fails, and the backend stores
\* what it stored before the call: no element of the batch is persisted.
C24_MalformedBatchRejected ==
    (WriteReturned /\ \E i \in 1..Len(last.documents) : ~WellFormed(last.documents[i])) =>
        last.outcome # "ok" /\ Stored = last.before

\* C25: a metadata field declared with a type that has no mapping is never reported
\* by a write: no write_documents call ends with the error of the unsupported field
\* type, and no index exists with such a field.
C25_NoMetadataErrorAtWrite ==
    /\ MapMetadataFieldTypes(az_service.index_fields)
    /\ WriteReturned => last.failed_at # "metadata_fields"

\* C26: write_documents with policy NONE (also the policy of a call that names none)
\* behaves as with FAIL on either backend: unless the backend itself fails, the call
\* raises DuplicateDocumentError when an id of the batch is already stored, and a
\* call that returns normally has stored every document of the batch.
C26_NoneIsFail ==
    (WriteReturned /\ last.policy = "NONE" /\ ~BackendFailed) =>
        /\ Existing # {} => last.outcome = "DuplicateDocumentError"
        /\ last.outcome = "ok" => BatchIds(last.documents) \subseteq StoredIds(Stored)

\* the batch of the call holds an id at two positions
RepeatedIds ==
    \E i, j \in 1..Len(last.documents) :
        i # j /\ last.documents[i].id = last.documents[j].id

\* C27: write_documents raises DuplicateDocumentError only for an id conflict under
\* policy FAIL (NONE taken as FAIL): the policy of a call that ends with
\* DuplicateDocumentError is not SKIP or OVERWRITE, and an id of the batch was already
\* stored or occurs twice in the batch; an integrity violation of another kind is not
\* reported as DuplicateDocumentError.
C27_DuplicateOnlyForIdConflict ==
    (WriteReturned /\ last.outcome = "DuplicateDocumentError") =>
        /\ last.policy \in {"FAIL", "NONE"}
        /\ Existing # {} \/ RepeatedIds

\* whether the pieces of `value` stand in a row somewhere in `text`
Occurs(value, text) ==
    /\ value # << >>
    /\ \E i \in 1..(Len(text) - Len(value) + 1) : SubSeq(text, i, i + Len(value) - 1) = value

\* the values the caller gave to the call, each as the text it is written with
CallerValues ==
    CASE last.op = "delete_documents" -> IdsOf(last.delete.document_ids)
      [] last.op = "_embedding_retrieval" -> {JoinStr(last.query.query_embedding, 1)}
      [] last.op = "_keyword_retrieval" -> {<<last.query.keyword>>}
      [] OTHER -> {}

\* C28: in every statement the pgvector store sends for delete_documents,
\* _embedding_retrieval or _keyword_retrieval, no value the caller supplied (a
\* document id, the query embedding, the keyword query) is part of the text of the
\* statement: such a value reaches the backend as a bound parameter only.
C28_OnlyBoundParameters ==
    last.statement # NoStatement =>
        \A value \in CallerValues : ~Occurs(value, last.statement.text)

\* the step runs _init_schema: the one-shot flag goes from unset to set
FirstAccess == ~schema_is_initialized /\ schema_is_initialized'

\* C29 as amended: outside a delete_table() call of the user, the documents table is
\* dropped only in the step of the first backend access (the one that runs
\* _init_schema) of a store configured with recreate_table, hence at most once; in
\* every other step of write_documents, count_documents, filter_documents, a
\* similarity or keyword search, every id that was stored before the step is stored
\* after it: only delete_documents and delete_table remove one.
C29_DropOnlyOnFirstAccessOrRequest ==
    [][ /\ last'.op # "delete_table" =>
              (pg_trace'.table_drops # pg_trace.table_drops =>
                  FirstAccess /\ config.recreate_table /\ pg_trace.init_runs = 0)
        /\ \/ StoredIds(pg_db.rows) \subseteq StoredIds(pg_db'.rows)
           \/ last'.op \in {"delete_documents", "delete_table"}
           \/ FirstAccess /\ config.recreate_table ]_vars

\* C29: the documents table is dropped at most once per store instance, and only in
\* the step of the first backend access (the one that sets the one-shot flag) of a
\* store configured with recreate_table; in every other step of write_documents,
\* count_documents, filter_documents, a similarity or keyword search, every id that
\* was stored before the step is stored after it: only delete_documents removes one.
C29_DropOnceOnFirstAccess ==
    [][ /\ pg_trace'.table_drops <= 1
        /\ pg_trace'.table_drops # pg_trace.table_drops =>
              FirstAccess /\ config.recreate_table /\ pg_trace.init_runs = 0
        /\ \/ StoredIds(pg_db.rows) \subseteq StoredIds(pg_db'.rows)
           \/ last'.op = "delete_documents"
           \/ FirstAccess /\ config.recreate_table ]_vars

\* C29 witness: the store with recreate_table dropped the table of the earlier
\* instance once, wrote a document, and a later write_documents found it stored
C29_Witness ==
    /\ config.recreate_table
    /\ pg_trace.table_drops = 1
    /\ schema_is_initialized
    /\ last.op = "write_documents"
    /\ last.outcome = "ok"
    /\ last.before # {}
    /\ last.before \subseteq pg_db.rows

\* C30: a write_documents call of the pgvector store leaves _connection (and the
\* session behind it) as it was before the call on every exit path, and a call that
\* does not return normally leaves nothing committed: the database after the call is
\* the database before it.
C30_WrapperRestoresAndRollsBack ==
    [][ (last = Idle /\ last'.op = "write_documents" /\ last'.inst = "pgvector") =>
            /\ pg_connection' = pg_connection
            /\ pg_session' = pg_session
            /\ last'.outcome # "ok" => pg_db' = pg_db ]_vars

====
